---- MODULE Spec2Model ----
(***************************************************************************)
(* Model of the document build pipeline (buildDocument) and of the        *)
(* just-in-time live-sample entry point (buildLiveSamplePageFromURL).      *)
(*                                                                         *)
(* A call is a chain of synchronous segments separated by the awaits of   *)
(* the source (kumascript.render, fixFixableFlaws).  Each pipeline stage   *)
(* is an operator from call state to call state; an action runs the       *)
(* stages of one segment in source order.                                  *)
(***************************************************************************)
EXTENDS Integers, Sequences, FiniteSets, TLC

VARIABLES
    b,            \* the buildDocument call in flight: locals, position, history
    j,            \* the buildLiveSamplePageFromURL call in flight
    renderCache,  \* process-wide macro-render cache: set of URLs it holds
    b2,           \* a second buildDocument call, in flight at the same time as b
    rootToGitBranchMap,   \* module-level cache: content root -> branch name
    unit          \* a direct call of one of the module's pure functions

vars == <<b, j, renderCache, b2, rootToGitBranchMap, unit>>

---------------------------------------------------------------------------
(* Bounds *)

MaxSlugLen == 4       \* longest slug, in characters
MaxSamples == 2       \* live samples one raw source declares

---------------------------------------------------------------------------
(* Strings as sequences of characters *)

SeqsUpTo(S, n) == UNION {[1..k -> S] : k \in 0..n}

Range(s) == {s[i] : i \in 1..Len(s)}

StartsWith(s, p) == Len(s) >= Len(p) /\ SubSeq(s, 1, Len(p)) = p

EndsWith(s, p) == Len(s) >= Len(p) /\ SubSeq(s, Len(s) - Len(p) + 1, Len(s)) = p

Includes(s, p) == \E i \in 1..(Len(s) - Len(p) + 1) : SubSeq(s, i, i + Len(p) - 1) = p

LowerChar(c) ==
    CASE c = "A" -> "a" [] c = "B" -> "b" [] c = "U" -> "u" [] c = "S" -> "s"
      [] OTHER -> c

\* String.prototype.toLowerCase
ToLowerCase(s) == [i \in 1..Len(s) |-> LowerChar(s[i])]

SlugChars == {"a", "/"}
Slugs == SeqsUpTo(SlugChars, MaxSlugLen)

\* Live-sample ids as declared in a raw source, and ids a caller may request.
DeclaredIds == {<<"a", "B">>, <<"a", "b">>, <<"c">>}
RequestedIds == DeclaredIds \cup {<<"A", "B">>, <<"d">>}

---------------------------------------------------------------------------
(* Errors and flaws *)

NoPath == "<none>"

\* An error object: its name, the text of its message, the values the message
\* interpolates, and its filepath property when it has one.
Error(name, message, details, filepath) ==
    [name |-> name, message |-> message, details |-> details, filepath |-> filepath]

NoError == Error("<none>", "<none>", <<>>, NoPath)

\* new Error(message)
NewError(message, details) == Error("Error", message, details, NoPath)

FLAW_LEVELS == [ERROR |-> "error", WARN |-> "warn", IGNORE |-> "ignore"]

Levels == {FLAW_LEVELS.ERROR, FLAW_LEVELS.WARN, FLAW_LEVELS.IGNORE}

\* A flaw object of the macro engine (a kumascript error instance).
Flaw(name, filepath, message) == [name |-> name, filepath |-> filepath, message |-> message]

NoFlaw == Flaw("<none>", NoPath, "<none>")

\* Flaw lists kumascript.render may report.
MacroFlawLists ==
    { <<>>,
      <<Flaw("MacroDeprecatedError", NoPath, "deprecated macro")>>,
      <<Flaw("MacroBrokenLinkError", NoPath, "broken link"),
        Flaw("MacroDeprecatedError", NoPath, "deprecated macro")>>,
      <<Flaw("MacroRedirectedLinkError", NoPath, "redirected link"),
        Flaw("MacroRedirectedLinkError", "en-us/a/index.html", "redirected link in a"),
        Flaw("MacroRedirectedLinkError", "en-us/c/index.html", "redirected link in c")>> }

\* The flaw kumascript.buildLiveSamplePage reports for a sample it cannot build.
LiveSampleFlaw == Flaw("MacroLiveSampleError", NoPath, "unable to find any live code samples")

\* Errors kumascript.render may throw.
RenderErrors ==
    { Error("MacroInvocationError", "unexpected token", <<"line 12", "column 7">>, NoPath),
      Error("Error", "render failed", <<>>, NoPath) }

\* Errors the collaborators of the tree stages may throw.
StageErrors == { Error("TypeError", "x is not a function", <<>>, NoPath) }

---------------------------------------------------------------------------
(* HTML: a fragment is the sequence of its elements in document order.     *)
(* box names the container an element sits in: the top level, the sidebar  *)
(* section, a div.hidden, or a span.alllinks.                              *)

Absent == "<absent>"

NoValue == <<Absent>>

ExampleHref == <<"http", "s://", "example.com", "/x">>
MdnHref == <<"http", "s://", "developer.mozilla.org", "/docs">>
FxHref == <<"http", "://", "www.", "fxsitecompat.com", "/docs">>
LocalHref == <<"/en-US/docs/Web">>
SafeHref == <<"http", "s://", "github.com", "/mdn/kuma/issues/7647">>

Element(tag, class, href, dataFlawSrc, box) ==
    [tag |-> tag, class |-> class, href |-> href, rel |-> NoValue,
     loading |-> Absent, dataFlawSrc |-> dataFlawSrc, box |-> box]

PlainP == Element("p", <<>>, NoValue, Absent, "top")
FlawedLink == Element("a", <<>>, ExampleHref, "{{Macro}}", "top")
SidebarLink == Element("a", <<>>, FxHref, "{{Macro}}", "sidebar")
HiddenPre == Element("pre", <<>>, NoValue, Absent, "hidden")
AllLink == Element("a", <<>>, LocalHref, Absent, "alllinks")
Warning == Element("div", <<"warning">>, NoValue, "{{Macro}}", "top")

\* HTML fragments: what kumascript.render returns, what an archived source holds.
Htmls ==
    { <<>>,
      <<PlainP, FlawedLink>>,
      <<SidebarLink, Warning>>,
      <<AllLink, HiddenPre, FlawedLink>> }

---------------------------------------------------------------------------
(* Source documents, options *)

EnUS == <<"e", "n", "-", "U", "S">>
Locales == {EnUS, <<"x", "x">>}

\* LANGUAGES: lower-cased locale -> language data.
LANGUAGES ==
    [l \in {<<"e", "n", "-", "u", "s">>, <<"f", "r">>} |->
        [native |-> IF l = <<"f", "r">> THEN "Francais" ELSE "English (US)"]]

URLs == {"/en-US/docs/A", "/en-US/docs/B"}

CONTENT_ROOT == "content/files"

FileInfos ==
    { [folder |-> "en-us/a", path |-> "en-us/a/index.html", root |-> CONTENT_ROOT],
      [folder |-> "en-us/b", path |-> "en-us/b/index.html", root |-> CONTENT_ROOT] }

\* Document.urlToFolderPath
UrlToFolderPath(url) == IF url = "/en-US/docs/A" THEN "en-us/a" ELSE "en-us/b"

SampleLists == SeqsUpTo({[id |-> i] : i \in DeclaredIds}, MaxSamples)

\* A raw source: its HTML and the live samples its macros declare.
RawSource(html, samples) == [html |-> html, samples |-> samples]

\* Raw sources of documents that are not archived: they are read only through
\* the macro engine, so their own HTML is held empty.
LiveSources == {RawSource(<<>>, l) : l \in SampleLists}

\* Raw sources of archived documents: they are never searched for live samples,
\* so they declare one or none.
ArchivedSources ==
    {RawSource(h, l) : h \in Htmls \ {<<>>}, l \in {<<>>, <<[id |-> <<"a", "B">>]>>}}

Document(url, fileInfo, slug, locale, isArchive, rawHTML) ==
    [url |-> url, fileInfo |-> fileInfo,
     metadata |-> [slug |-> slug, title |-> "Title", locale |-> locale],
     isArchive |-> isArchive, isTranslated |-> FALSE, isActive |-> TRUE,
     rawHTML |-> rawHTML]

Sources(isArchive) == IF isArchive THEN ArchivedSources ELSE LiveSources

\* The sources that declare at most the one live sample "aB".
Short(sources) == {r \in sources : Len(r.samples) = 0 \/ r.samples = <<[id |-> <<"a", "B">>]>>}

\* The documents built: every slug with the short sources, and the slug "a" with
\* every source and every locale.
Documents ==
    { Document("/en-US/docs/A", f, s, EnUS, a, r) :
        f \in FileInfos, s \in Slugs, a \in BOOLEAN, r \in Short(LiveSources \cup ArchivedSources) }
    \cup
    { Document("/en-US/docs/A", f, <<"a">>, l, a, r) :
        f \in FileInfos, l \in Locales, a \in BOOLEAN, r \in LiveSources \cup ArchivedSources }

OptionKeys == {"flawLevels", "clearKumascriptRenderCache"}

Options(level, clear) ==
    [flawLevels |-> [macros |-> level], clearKumascriptRenderCache |-> clear]

\* build-options: the process defaults.
BuildOptions == {Options(FLAW_LEVELS.WARN, FALSE), Options(FLAW_LEVELS.ERROR, TRUE)}

\* Per-call overrides: any subset of the keys, with any values.
DocumentOptions ==
    { [k \in D |-> o[k]] :
        o \in {Options(l, c) : l \in Levels, c \in BOOLEAN}, D \in SUBSET OptionKeys }

\* Object.assign({}, buildOptions, documentOptions)
MergeOptions(buildOptions, documentOptions) ==
    [k \in DOMAIN buildOptions \cup DOMAIN documentOptions |->
        IF k \in DOMAIN documentOptions THEN documentOptions[k] ELSE buildOptions[k]]

---------------------------------------------------------------------------
(* The state of one buildDocument call *)

NewCall(document, options) ==
    [pc |-> "running", document |-> document, options |-> options,
     doc |-> <<>>, renderedHtml |-> <<>>, flaws |-> <<>>, liveSamples |-> <<>>,
     loaded |-> FALSE, tree |-> <<>>, error |-> NoError,
     given |-> document,  \* history: the source document as it was at the call
     lookups |-> <<>>,    \* history: the documents Document.findByURL was asked for
     trace |-> <<>>,      \* history: the stages that ran, in order
     console |-> <<>>,    \* history: the lines written to the console
     visited |-> <<>>]    \* history: the samples handed to the engine, and its answers

NoDocument == Document("<none>", [folder |-> "<none>", path |-> NoPath, root |-> "<none>"],
                       <<>>, <<>>, FALSE, RawSource(<<>>, <<>>))

NoOptions == Options("<none>", FALSE)

IdleCall == [NewCall(NoDocument, NoOptions) EXCEPT !.pc = "idle"]

\* A stage that runs appends its name to the call's trace.
Mark(st, stage) == [st EXCEPT !.trace = Append(@, stage)]

Throw(st, error) == [st EXCEPT !.pc = "thrown", !.error = error]

\* Sequencing: once a stage has thrown, no later stage runs.
Then(st, Stage(_)) == IF st.pc = "thrown" THEN st ELSE Stage(st)

Line(level, text, n, path) == [level |-> level, text |-> text, n |-> n, path |-> path]

---------------------------------------------------------------------------
(* buildDocument, stage by stage, in source order *)

\* The URL-derived folder must be the folder on disk.
CheckFolder(st) ==
    LET s == Mark(st, "checkFolder") IN
    IF UrlToFolderPath(s.document.url) # s.document.fileInfo.folder
    THEN Throw(s, NewError("The document's slug doesn't match its disk folder name",
                           <<s.document.metadata.slug, s.document.fileInfo.folder>>))
    ELSE s

\* const doc = {isArchive, isTranslated, isActive}; doc.flaws = {}
InitDoc(st) ==
    [st EXCEPT !.doc = [isArchive |-> st.document.isArchive,
                        isTranslated |-> st.document.isTranslated,
                        isActive |-> st.document.isActive,
                        flaws |-> <<>>]]

\* Archived: renderedHtml = document.rawHTML
UseRawHTML(st) == [Mark(st, "useRawHTML") EXCEPT !.renderedHtml = st.document.rawHTML.html]

\* Variant: the cache is reset whatever the options say.
ResetRenderCacheAlways(st) == Mark(st, "renderCache.reset")

\* if (options.clearKumascriptRenderCache) renderKumascriptCache.reset()
ResetRenderCache(st) ==
    IF st.options.clearKumascriptRenderCache THEN Mark(st, "renderCache.reset") ELSE st

\* await kumascript.render(document.url): the call suspends.
CallRender(st) == [Mark(st, "render") EXCEPT !.pc = "awaitRender"]

\* [renderedHtml, flaws] = await kumascript.render(document.url)
RenderReturned(st, html, flaws) ==
    [st EXCEPT !.pc = "running", !.renderedHtml = html, !.flaws = flaws]

\* flaw.updateFileInfo(fileInfo)
UpdateFileInfo(flaw, fileInfo) == [flaw EXCEPT !.filepath = fileInfo.path]

\* Variant: the catch wraps every error, whatever its name.
RenderThrewWrapsAll(st, error) ==
    Throw(st, NewError("MacroInvocationError trying to parse",
                       <<UpdateFileInfo(error, st.document.fileInfo).filepath>>
                       \o error.details \o <<error.message>>))

\* The catch around kumascript.render.
RenderThrew(st, error) ==
    IF error.name = "MacroInvocationError"
    THEN Throw(st, NewError("MacroInvocationError trying to parse",
                            <<UpdateFileInfo(error, st.document.fileInfo).filepath>>
                            \o error.details \o <<error.message>>))
    ELSE Throw(st, error)

\* kumascript.getLiveSampleIDs(document.metadata.slug, document.rawHTML)
GetLiveSampleIDs(slug, rawHTML) == rawHTML.samples

\* kumascript.buildLiveSamplePage(url, title, renderedHtml, sampleIdObject):
\* the page of the sample, or the flaw when the engine cannot build it.
BuildLiveSamplePage(url, title, renderedHtml, sampleIdObject, builds) ==
    IF builds
    THEN [html |-> [sample |-> sampleIdObject.id, url |-> url], flaw |-> NoFlaw]
    ELSE [html |-> [sample |-> <<>>, url |-> url], flaw |-> LiveSampleFlaw]

\* Variant: a sample that fails is skipped and its flaw is dropped.
BuildOneLiveSampleDropsFlaw(st, sampleIdObject, builds) ==
    LET s == [Mark(st, "buildLiveSamplePage") EXCEPT
                 !.visited = Append(@, [id |-> sampleIdObject.id, built |-> builds])]
        liveSamplePage == BuildLiveSamplePage(s.document.url, s.document.metadata.title,
                                              s.renderedHtml, sampleIdObject, builds)
    IN  IF liveSamplePage.flaw # NoFlaw
        THEN s
        ELSE [s EXCEPT !.liveSamples =
                 Append(@, [id |-> ToLowerCase(sampleIdObject.id),
                            html |-> liveSamplePage.html])]

\* Variant: the id is stored as declared.
BuildOneLiveSampleKeepsCase(st, sampleIdObject, builds) ==
    LET s == [Mark(st, "buildLiveSamplePage") EXCEPT
                 !.visited = Append(@, [id |-> sampleIdObject.id, built |-> builds])]
        liveSamplePage == BuildLiveSamplePage(s.document.url, s.document.metadata.title,
                                              s.renderedHtml, sampleIdObject, builds)
    IN  IF liveSamplePage.flaw # NoFlaw
        THEN [s EXCEPT !.flaws = Append(@, UpdateFileInfo(liveSamplePage.flaw,
                                                          s.document.fileInfo))]
        ELSE [s EXCEPT !.liveSamples =
                 Append(@, [id |-> sampleIdObject.id, html |-> liveSamplePage.html])]

\* One iteration of the loop over sampleIds.
BuildOneLiveSample(st, sampleIdObject, builds) ==
    LET s == [Mark(st, "buildLiveSamplePage") EXCEPT
                 !.visited = Append(@, [id |-> sampleIdObject.id, built |-> builds])]
        liveSamplePage == BuildLiveSamplePage(s.document.url, s.document.metadata.title,
                                              s.renderedHtml, sampleIdObject, builds)
    IN  IF liveSamplePage.flaw # NoFlaw
        THEN [s EXCEPT !.flaws = Append(@, UpdateFileInfo(liveSamplePage.flaw,
                                                          s.document.fileInfo))]
        ELSE [s EXCEPT !.liveSamples =
                 Append(@, [id |-> ToLowerCase(sampleIdObject.id),
                            html |-> liveSamplePage.html])]

RECURSIVE BuildLiveSampleLoopBreaks(_, _, _)
\* Variant: the loop ends at the first sample that fails.
BuildLiveSampleLoopBreaks(st, sampleIds, builds) ==
    IF sampleIds = <<>> THEN st
    ELSE IF ~Head(builds) THEN BuildOneLiveSample(st, Head(sampleIds), Head(builds))
    ELSE BuildLiveSampleLoopBreaks(BuildOneLiveSample(st, Head(sampleIds), Head(builds)),
                                   Tail(sampleIds), Tail(builds))

RECURSIVE BuildLiveSampleLoop(_, _, _)
\* for (const sampleIdObject of sampleIds) ...; builds[i] tells whether the
\* engine builds the i-th remaining sample.
BuildLiveSampleLoop(st, sampleIds, builds) ==
    IF sampleIds = <<>> THEN st
    ELSE BuildLiveSampleLoop(BuildOneLiveSample(st, Head(sampleIds), Head(builds)),
                             Tail(sampleIds), Tail(builds))

BuildLiveSamples(st, builds) ==
    BuildLiveSampleLoop(Mark(st, "getLiveSampleIDs"),
                        GetLiveSampleIDs(st.document.metadata.slug, st.document.rawHTML),
                        builds)

RECURSIVE ReportFlaws(_, _)
\* flaws.forEach((flaw, i) => console.error(i + 1: name); console.error(flaw))
ReportFlaws(flaws, i) ==
    IF i > Len(flaws) THEN <<>>
    ELSE << Line("error", flaws[i].name, i, NoPath),
            Line("error", flaws[i].message, i, flaws[i].filepath) >>
         \o ReportFlaws(flaws, i + 1)

\* Variant: a redirected link is fixable whatever file it was found in.
MacroFlawRecordAnyFile(flaw, i, document) ==
    LET deprecated == flaw.name = "MacroDeprecatedError"
        redirected == flaw.name = "MacroRedirectedLinkError"
    IN  [id |-> <<"macro", i>>,
         fixable |-> deprecated \/ redirected,
         suggestion |-> IF deprecated THEN "" ELSE IF redirected THEN "<redirected>" ELSE "<null>",
         explanation |-> flaw.message,
         name |-> flaw.name, filepath |-> flaw.filepath, message |-> flaw.message]

\* The record doc.flaws.macros holds for the i-th flaw (i counts from 0).
MacroFlawRecord(flaw, i, document) ==
    LET deprecated == flaw.name = "MacroDeprecatedError"
        redirected == /\ flaw.name = "MacroRedirectedLinkError"
                      /\ (flaw.filepath = NoPath \/ flaw.filepath = document.fileInfo.path)
    IN  [id |-> <<"macro", i>>,
         fixable |-> deprecated \/ redirected,
         suggestion |-> IF deprecated THEN "" ELSE IF redirected THEN "<redirected>" ELSE "<null>",
         explanation |-> flaw.message,
         name |-> flaw.name, filepath |-> flaw.filepath, message |-> flaw.message]

\* Variant: under ERROR only the first flaw is reported before the throw.
ApplyMacroFlawPolicyFirstOnly(st) ==
    LET s == Mark(st, "macroFlawPolicy")
        level == s.options.flawLevels.macros
    IN  IF Len(s.flaws) = 0 THEN s
        ELSE IF level = FLAW_LEVELS.ERROR
        THEN Throw([s EXCEPT !.console =
                        @ \o <<Line("error", "Flaws while rendering macros", Len(s.flaws), NoPath)>>
                          \o ReportFlaws(<<s.flaws[1]>>, 1)],
                   NewError("Flaw error encountered", <<>>))
        ELSE IF level = FLAW_LEVELS.WARN
        THEN [s EXCEPT !.doc.flaws =
                 @ @@ ("macros" :> [i \in 1..Len(s.flaws) |->
                                       MacroFlawRecord(s.flaws[i], i - 1, s.document)])]
        ELSE s

\* if (flaws.length) { ERROR: report and throw; WARN: doc.flaws.macros = ... }
ApplyMacroFlawPolicy(st) ==
    LET s == Mark(st, "macroFlawPolicy")
        level == s.options.flawLevels.macros
    IN  IF Len(s.flaws) = 0 THEN s
        ELSE IF level = FLAW_LEVELS.ERROR
        THEN Throw([s EXCEPT !.console =
                        @ \o <<Line("error", "Flaws while rendering macros", Len(s.flaws), NoPath)>>
                          \o ReportFlaws(s.flaws, 1)],
                   NewError("Flaw error encountered", <<>>))
        ELSE IF level = FLAW_LEVELS.WARN
        THEN [s EXCEPT !.doc.flaws =
                 @ @@ ("macros" :> [i \in 1..Len(s.flaws) |->
                                       MacroFlawRecord(s.flaws[i], i - 1, s.document)])]
        ELSE s

\* Variant: a double separator inside the slug is let through.
SlugErrorMissesDouble(slug) ==
    IF slug = <<>> THEN "slug is empty"
    ELSE IF StartsWith(slug, <<"/">>) THEN "Slug starts with a /"
    ELSE IF EndsWith(slug, <<"/">>) THEN "Slug ends with a /"
    ELSE ""

\* validateSlug: the message of the error it throws, or "" when the slug is sane.
SlugError(slug) ==
    IF slug = <<>> THEN "slug is empty"
    ELSE IF StartsWith(slug, <<"/">>) THEN "Slug starts with a /"
    ELSE IF EndsWith(slug, <<"/">>) THEN "Slug ends with a /"
    ELSE IF Includes(slug, <<"/", "/">>) THEN "Slug contains a double /"
    ELSE ""

validateSlug(st) ==
    LET s == Mark(st, "validateSlug")
        message == SlugError(s.document.metadata.slug)
    IN  IF message # "" THEN Throw(s, NewError(message, <<s.document.metadata.slug>>)) ELSE s

\* Applies f to every element of the tree, in document order.
EachElement(tree, f(_)) == [i \in 1..Len(tree) |-> f(tree[i])]

\* Removes the elements that sit in a container of the given kind.
RemoveBox(tree, box) == SelectSeq(tree, LAMBDA e : e.box # box)

\* cheerio addClass / removeClass on a class list
AddClass(class, name) == IF name \in Range(class) THEN class ELSE Append(class, name)
RemoveClass(class, name) == SelectSeq(class, LAMBDA c : c # name)

\* const $ = cheerio.load(`<div id="_body">${renderedHtml}</div>`)
LoadTree(st) == [Mark(st, "load") EXCEPT !.loaded = TRUE, !.tree = st.renderedHtml]

\* $("[data-flaw-src]").removeAttr("data-flaw-src")
RemoveFlawSrc(e) == [e EXCEPT !.dataFlawSrc = Absent]

\* Variant: the markers are removed only when the render reported flaws.
StripFlawMarkersWhenFlawed(st) ==
    IF st.options.flawLevels.macros = FLAW_LEVELS.IGNORE /\ Len(st.flaws) > 0
    THEN [Mark(st, "stripFlawMarkers") EXCEPT !.tree = EachElement(@, RemoveFlawSrc)]
    ELSE st

\* Variant: the markers are removed under the WARN level instead.
StripFlawMarkersUnderWarn(st) ==
    IF st.options.flawLevels.macros = FLAW_LEVELS.WARN
    THEN [Mark(st, "stripFlawMarkers") EXCEPT !.tree = EachElement(@, RemoveFlawSrc)]
    ELSE st

\* Under the IGNORE level the markers the macro engine injected are removed.
StripFlawMarkers(st) ==
    IF st.options.flawLevels.macros = FLAW_LEVELS.IGNORE
    THEN [Mark(st, "stripFlawMarkers") EXCEPT !.tree = EachElement(@, RemoveFlawSrc)]
    ELSE st

\* $("span.alllinks").remove()
RemoveAllLinks(st) == [Mark(st, "removeAllLinks") EXCEPT !.tree = RemoveBox(@, "alllinks")]

\* doc.title, doc.mdn_url, doc.locale, doc.native; a locale LANGUAGES does not
\* know makes the lookup of .native throw.
SetIdentity(st) ==
    LET s == Mark(st, "identity")
        locale == s.document.metadata.locale
    IN  IF ToLowerCase(locale) \notin DOMAIN LANGUAGES
        THEN Throw(s, Error("TypeError", "Cannot read property 'native' of undefined",
                            <<>>, NoPath))
        ELSE [s EXCEPT !.doc = @ @@ [title |-> s.document.metadata.title,
                                     mdn_url |-> s.document.url,
                                     locale |-> locale,
                                     native |-> LANGUAGES[ToLowerCase(locale)].native]]

\* doc.sidebarHTML = extractSidebar($): the sidebar leaves the tree.
ExtractSidebar(st) ==
    [Mark(st, "extractSidebar") EXCEPT
        !.doc = @ @@ [sidebarHTML |-> SelectSeq(st.tree, LAMBDA e : e.box = "sidebar")],
        !.tree = RemoveBox(@, "sidebar")]

\* checkImageReferences, checkImageWidths: read the tree.
CheckImages(st) == Mark(Mark(st, "checkImageReferences"), "checkImageWidths")

\* Variant: the catch logs the failure and does not throw again.
InjectFlawsSwallows(st, raised) ==
    LET s == Mark(st, "injectFlaws") IN
    IF raised # NoError
    THEN [s EXCEPT !.console = Append(@, Line("warn", "Injecting flaws failed", 0,
                                              s.document.fileInfo.path))]
    ELSE s

\* try { injectFlaws(...) } catch (error) { console.warn(...); throw error }
InjectFlaws(st, raised) ==
    LET s == Mark(st, "injectFlaws") IN
    IF raised # NoError
    THEN Throw([s EXCEPT !.console = Append(@, Line("warn", "Injecting flaws failed", 0,
                                                    s.document.fileInfo.path))],
               raised)
    ELSE s

\* An href that is never presented: http... and mentions fxsitecompat.com
IsUnsafeHref(href) == StartsWith(href, <<"http">>) /\ "fxsitecompat.com" \in Range(href)

RewriteUnsafeLink(e) ==
    IF e.tag = "a" /\ e.href # NoValue /\ IsUnsafeHref(e.href)
    THEN [e EXCEPT !.href = SafeHref]
    ELSE e

RewriteUnsafeLinks(st) ==
    [Mark(st, "rewriteUnsafeLinks") EXCEPT !.tree = EachElement(@, RewriteUnsafeLink)]

\* await fixFixableFlaws(doc, options, document): the call suspends.
CallFixFixableFlaws(st) == [Mark(st, "fixFixableFlaws") EXCEPT !.pc = "awaitFix"]

\* catch (error) { console.error(error); throw error }
FixThrew(st, error) ==
    Throw([st EXCEPT !.console = Append(@, Line("error", error.message, 0, NoPath))], error)

\* $("div.hidden").remove()
RemoveHidden(st) == [Mark(st, "removeHidden") EXCEPT !.tree = RemoveBox(@, "hidden")]

\* syntaxHighlight($, doc)
SyntaxHighlight(st) == Mark(st, "syntaxHighlight")

\* $("pre").addClass("notranslate")
NoTranslate(e) ==
    IF e.tag = "pre" THEN [e EXCEPT !.class = AddClass(@, "notranslate")] ELSE e

injectNoTranslate(st) ==
    [Mark(st, "injectNoTranslate") EXCEPT !.tree = EachElement(@, NoTranslate)]

\* $("img:not([loading]), iframe:not([loading])").attr("loading", "lazy")
LoadingLazy(e) ==
    IF e.tag \in {"img", "iframe"} /\ e.loading = Absent
    THEN [e EXCEPT !.loading = "lazy"]
    ELSE e

injectLoadingLazyAttributes(st) ==
    [Mark(st, "injectLoadingLazyAttributes") EXCEPT !.tree = EachElement(@, LoadingLazy)]

\* A rel attribute is a string: a sequence of words and of the separators
\* " " and "\t" between them.  String.prototype.split(" ") cuts it at every
\* single space, and only there.
RECURSIVE SplitAtSpaces(_)
SplitAtSpaces(s) ==
    IF " " \notin Range(s) THEN <<s>>
    ELSE LET i == CHOOSE k \in DOMAIN s : s[k] = " " /\ \A m \in 1..(k - 1) : s[m] # " "
         IN  <<SubSeq(s, 1, i - 1)>> \o SplitAtSpaces(SubSeq(s, i + 1, Len(s)))

\* Array.prototype.join(" ")
RECURSIVE JoinWithSpaces(_)
JoinWithSpaces(parts) ==
    IF Len(parts) = 0 THEN <<>>
    ELSE IF Len(parts) = 1 THEN parts[1]
    ELSE parts[1] \o <<" ">> \o JoinWithSpaces(Tail(parts))

\* ($a.attr("rel") || "").split(" "): an absent rel splits into one empty part.
RelTokens(rel) == SplitAtSpaces(IF rel = NoValue THEN <<>> ELSE rel)

\* Variant: links to developer.mozilla.org are treated like every other link.
ExternalLinkNoExemption(e) ==
    IF e.tag = "a" /\ e.href # NoValue /\ StartsWith(e.href, <<"http">>)
    THEN LET rel == RelTokens(e.rel) IN
         [e EXCEPT !.class = AddClass(@, "external"),
                   !.rel = IF <<"noopener">> \in Range(rel) THEN @
                           ELSE JoinWithSpaces(Append(rel, <<"noopener">>))]
    ELSE e

\* Variant: noopener is pushed whether the rel holds it or not.
ExternalLinkAlwaysPushes(e) ==
    IF e.tag = "a" /\ e.href # NoValue /\ StartsWith(e.href, <<"http">>)
    THEN IF StartsWith(e.href, <<"http", "s://", "developer.mozilla.org">>)
         THEN e
         ELSE [e EXCEPT !.class = AddClass(@, "external"),
                        !.rel = JoinWithSpaces(Append(RelTokens(e.rel), <<"noopener">>))]
    ELSE e

\* $("a[href^=http]").each(...)
ExternalLink(e) ==
    IF e.tag = "a" /\ e.href # NoValue /\ StartsWith(e.href, <<"http">>)
    THEN IF StartsWith(e.href, <<"http", "s://", "developer.mozilla.org">>)
         THEN e
         ELSE LET rel == RelTokens(e.rel) IN
              [e EXCEPT !.class = AddClass(@, "external"),
                        !.rel = IF <<"noopener">> \in Range(rel) THEN @
                                ELSE JoinWithSpaces(Append(rel, <<"noopener">>))]
    ELSE e

postProcessExternalLinks(st) ==
    [Mark(st, "postProcessExternalLinks") EXCEPT !.tree = EachElement(@, ExternalLink)]

\* Variant: the class warning is removed together with the other two.
InPageCalloutDropsWarning(e) ==
    IF e.tag = "div" /\ "in-page-callout" \in Range(e.class)
    THEN [e EXCEPT !.class =
             RemoveClass(RemoveClass(RemoveClass(AddClass(@, "callout"), "in-page-callout"),
                                     "webdev"), "warning")]
    ELSE e

\* $("div.in-page-callout").addClass("callout").removeClass("in-page-callout webdev")
InPageCallout(e) ==
    IF e.tag = "div" /\ "in-page-callout" \in Range(e.class)
    THEN [e EXCEPT !.class =
             RemoveClass(RemoveClass(AddClass(@, "callout"), "in-page-callout"), "webdev")]
    ELSE e

injectInPageCallout(st) ==
    [Mark(st, "injectInPageCallout") EXCEPT !.tree = EachElement(@, InPageCallout)]

\* $("div.warning, div.note, div.blockIndicator").addClass("notecard")
\*     .removeClass("blockIndicator")
NotecardOnWarning(e) ==
    IF e.tag = "div" /\ Range(e.class) \cap {"warning", "note", "blockIndicator"} # {}
    THEN [e EXCEPT !.class = RemoveClass(AddClass(@, "notecard"), "blockIndicator")]
    ELSE e

injectNotecardOnWarnings(st) ==
    [Mark(st, "injectNotecardOnWarnings") EXCEPT !.tree = EachElement(@, NotecardOnWarning)]

\* const [sections, sectionFlaws] = extractSections($); doc.body = sections.
\* The remaining tree becomes the prose of the body; extraction consumes the tree.
ExtractSections(st) ==
    [Mark(st, "extractSections") EXCEPT
        !.doc = @ @@ [body |-> IF st.tree = <<>> THEN <<>>
                               ELSE <<[type |-> "prose",
                                       value |-> [id |-> "", title |-> "", isH3 |-> FALSE,
                                                  content |-> st.tree]]>>],
        !.tree = <<>>]

\* Variant: sub-sections are listed as well.
makeTOCKeepsSubSections(doc) ==
    LET entry(section) == [text |-> section.value.title, id |-> section.value.id]
        listed(section) ==
            /\ section.type \in {"prose", "browser_compatibility"}
            /\ section.value.id # ""
            /\ section.value.title # ""
        kept == SelectSeq(doc.body, listed)
    IN  [i \in 1..Len(kept) |-> entry(kept[i])]

\* makeTOC(doc)
makeTOC(doc) ==
    LET entry(section) == [text |-> section.value.title, id |-> section.value.id]
        listed(section) ==
            /\ section.type \in {"prose", "browser_compatibility"}
            /\ section.value.id # ""
            /\ section.value.title # ""
            /\ ~section.value.isH3
        kept == SelectSeq(doc.body, listed)
    IN  [i \in 1..Len(kept) |-> entry(kept[i])]

MakeTOC(st) == [Mark(st, "makeTOC") EXCEPT !.doc = @ @@ [toc |-> makeTOC(st.doc)]]

\* extractSummary(doc.body): the paragraphs of the first section.
ExtractSummary(body) ==
    IF body = <<>> THEN <<>>
    ELSE SelectSeq(body[1].value.content, LAMBDA e : e.tag = "p")

\* doc.summary, the BCD data, doc.popularity, doc.modified
SetSummary(st) ==
    LET stages == <<"extractSummary", "normalizeBCDURLs", "extractBCDData", "popularity",
                    "modified">>
    IN  [st EXCEPT !.doc = @ @@ [summary |-> ExtractSummary(st.doc.body)],
                   !.trace = @ \o stages]

\* The entry that points back to the en-US document a translation is made of.
TranslationOfEntry(translationOf) ==
    [locale |-> <<"e", "n", "-", "U", "S">>, title |-> translationOf.metadata.title,
     native |-> LANGUAGES[<<"e", "n", "-", "u", "s">>].native]

\* Variant: doc.other_translations is set whatever the length of the list.
OtherTranslationsAlwaysSets(st, translationOf) ==
    LET s == Mark(st, "otherTranslations")
        own == "translations" \in DOMAIN s.document
        otherTranslations == IF own THEN s.document.translations ELSE <<>>
        asked == /\ Len(otherTranslations) = 0
                 /\ "translation_of" \in DOMAIN s.document.metadata
        pushes == asked /\ translationOf.url # "<none>"
        list == IF pushes THEN Append(otherTranslations, TranslationOfEntry(translationOf))
                ELSE otherTranslations
        s0 == IF asked
              THEN [s EXCEPT !.lookups =
                       Append(@, [url |-> <<"/en-US/docs/">> \o s.document.metadata.translation_of,
                                  found |-> translationOf])]
              ELSE s
        s1 == IF own THEN [s0 EXCEPT !.document.translations = list] ELSE s0
    IN  [s1 EXCEPT !.doc = @ @@ [other_translations |-> list]]

\* const otherTranslations = document.translations || []; ... push ...;
\* doc.other_translations.  translationOf is what Document.findByURL returns for
\* the document named by metadata.translation_of.  The list is the array of the
\* source document when it has one, so the push lands in the source document.
OtherTranslations(st, translationOf) ==
    LET s == Mark(st, "otherTranslations")
        own == "translations" \in DOMAIN s.document
        otherTranslations == IF own THEN s.document.translations ELSE <<>>
        pushes == /\ Len(otherTranslations) = 0
                  /\ "translation_of" \in DOMAIN s.document.metadata
                  /\ translationOf.url # "<none>"
        list == IF pushes THEN Append(otherTranslations, TranslationOfEntry(translationOf))
                ELSE otherTranslations
        asked == /\ Len(otherTranslations) = 0
                 /\ "translation_of" \in DOMAIN s.document.metadata
        s0 == IF asked
              THEN [s EXCEPT !.lookups =
                       Append(@, [url |-> <<"/en-US/docs/">> \o s.document.metadata.translation_of,
                                  found |-> translationOf])]
              ELSE s
        s1 == IF own THEN [s0 EXCEPT !.document.translations = list] ELSE s0
    IN  IF Len(list) > 0
        THEN [s1 EXCEPT !.doc = @ @@ [other_translations |-> list]]
        ELSE s1

DEFAULT_BRANCH_NAME == <<"main">>

\* process.env.GITHUB_REF.split("/").slice(2).join("/"): the parts after the second.
RefBranch(ref) == SubSeq(ref, 3, Len(ref))

\* The name getCurrentGitBranch computes for a root the map does not hold.
\* env.GITHUB_REF is the parts of the variable (none when unset); env.git is the
\* output of git branch --show-current, "<throws>" standing for its failure.
BranchName(root, env) ==
    IF root # CONTENT_ROOT THEN DEFAULT_BRANCH_NAME
    ELSE IF env.GITHUB_REF # <<>> THEN RefBranch(env.GITHUB_REF)
    ELSE IF env.git \in {<<"<throws>">>, <<>>} THEN DEFAULT_BRANCH_NAME
    ELSE env.git

\* Variant: the name is computed and stored on every call.
SetGitBranchOverwrites(map, root, env) ==
    [r \in DOMAIN map \cup {root} |-> IF r = root THEN BranchName(root, env) ELSE map[r]]

\* getCurrentGitBranch(root): the map after the call.
SetGitBranch(map, root, env) ==
    IF root \in DOMAIN map THEN map ELSE map @@ (root :> BranchName(root, env))

getCurrentGitBranch(map, root, env) == SetGitBranch(map, root, env)[root]

\* injectSource(doc, document, metadata)
injectSource(st, map, env) ==
    LET folder == st.document.fileInfo.folder
        root == st.document.fileInfo.root
    IN  [Mark(st, "injectSource") EXCEPT
            !.doc = @ @@ [source |-> [folder |-> folder,
                                      github_url |-> <<root, getCurrentGitBranch(map, root, env),
                                                       folder>>,
                                      last_commit_url |-> <<root, "hash">>]]]

\* The derived fields from the summary to the page title.
DeriveFields(st, translationOf, map, env) ==
    LET s1 == OtherTranslations(SetSummary(st), translationOf)
        s2 == injectSource(s1, map, env)
    IN  Mark(Mark(s2, "addBreadcrumbData"), "getPageTitle")

\* Variant: every archived document is excluded, translated or not.
NoIndexingIgnoresTranslated(doc, metadata) ==
    \/ doc.isArchive
    \/ metadata.slug = <<"MDN", "/", "Kitchensink">>
    \/ StartsWith(metadata.slug, <<"orphaned", "/">>)
    \/ StartsWith(metadata.slug, <<"conflicting", "/">>)

\* doc.noIndexing
NoIndexing(doc, metadata) ==
    \/ (doc.isArchive /\ ~doc.isTranslated)
    \/ metadata.slug = <<"MDN", "/", "Kitchensink">>
    \/ StartsWith(metadata.slug, <<"orphaned", "/">>)
    \/ StartsWith(metadata.slug, <<"conflicting", "/">>)

SetNoIndexing(st) ==
    [Mark(st, "noIndexing") EXCEPT
        !.doc = @ @@ [noIndexing |-> NoIndexing(st.doc, st.document.metadata)]]

\* return { doc, liveSamples, fileAttachments, bcdData }
Return(st) == [Mark(st, "return") EXCEPT !.pc = "returned"]

\* When the call ends its frame is gone: a throw leaves the error and no output,
\* a return leaves the output; the tree is discarded either way.
Unwind(st) ==
    IF st.pc = "thrown"
    THEN [st EXCEPT !.doc = <<>>, !.renderedHtml = <<>>, !.tree = <<>>]
    ELSE IF st.pc = "returned"
    THEN [st EXCEPT !.tree = <<>>]
    ELSE st

\* Variant: the tree is loaded before the slug is validated.
TreeSegmentLoadsFirst(st, raised) ==
    LET s1 == Then(st, LoadTree)
        s2 == Then(s1, validateSlug)
        s3 == Then(s2, StripFlawMarkers)
        s4 == Then(s3, RemoveAllLinks)
        s5 == Then(s4, SetIdentity)
        s6 == Then(s5, ExtractSidebar)
        s7 == Then(s6, CheckImages)
        s8 == Then(s7, LAMBDA s : InjectFlaws(s, raised))
        s9 == Then(s8, RewriteUnsafeLinks)
    IN  Then(s9, CallFixFixableFlaws)

\* From validateSlug to the await of fixFixableFlaws.
TreeSegment(st, raised) ==
    LET s1 == Then(st, validateSlug)
        s2 == Then(s1, LoadTree)
        s3 == Then(s2, StripFlawMarkers)
        s4 == Then(s3, RemoveAllLinks)
        s5 == Then(s4, SetIdentity)
        s6 == Then(s5, ExtractSidebar)
        s7 == Then(s6, CheckImages)
        s8 == Then(s7, LAMBDA s : InjectFlaws(s, raised))
        s9 == Then(s8, RewriteUnsafeLinks)
    IN  Then(s9, CallFixFixableFlaws)

\* Variant: an archived document is rendered like any other.
FirstSegmentRendersArchive(st, raised) ==
    LET s1 == Then(CheckFolder(st), InitDoc) IN
    IF s1.pc = "thrown" THEN s1
    ELSE CallRender(ResetRenderCache(s1))

\* Variant: the render cache is reset before the folder is checked.
FirstSegmentResetsFirst(st, raised) ==
    LET s1 == Then(CheckFolder(ResetRenderCache(st)), InitDoc) IN
    IF s1.pc = "thrown" THEN s1
    ELSE IF s1.doc.isArchive THEN TreeSegment(UseRawHTML(s1), raised)
    ELSE CallRender(s1)

\* From the call to the first await, or to the end when a stage throws.
FirstSegment(st, raised) ==
    LET s1 == Then(CheckFolder(st), InitDoc) IN
    IF s1.pc = "thrown" THEN s1
    ELSE IF s1.doc.isArchive THEN TreeSegment(UseRawHTML(s1), raised)
    ELSE CallRender(ResetRenderCache(s1))

\* From the return of kumascript.render to the await of fixFixableFlaws.
RenderedSegment(st, html, flaws, builds, raised) ==
    LET s1 == BuildLiveSamples(RenderReturned(st, html, flaws), builds)
        s2 == Then(s1, ApplyMacroFlawPolicy)
    IN  TreeSegment(s2, raised)

\* From the return of fixFixableFlaws to the return of buildDocument.
LastSegment(st, translationOf, map, env) ==
    LET s1 == RemoveHidden([st EXCEPT !.pc = "running"])
        s2 == SyntaxHighlight(s1)
        s3 == injectNoTranslate(s2)
        s4 == injectLoadingLazyAttributes(s3)
        s5 == postProcessExternalLinks(s4)
        s6 == injectInPageCallout(s5)
        s7 == injectNotecardOnWarnings(s6)
        s8 == MakeTOC(ExtractSections(s7))
    IN  Return(SetNoIndexing(DeriveFields(s8, translationOf, map, env)))

---------------------------------------------------------------------------
(* buildLiveSamplePageFromURL *)

\* url.split("/_samples_/")
SplitSampleURL(url) == <<url.documentURL, url.sampleID>>

NewLookup(url) ==
    [pc |-> "running", documentURL |-> SplitSampleURL(url)[1],
     sampleID |-> SplitSampleURL(url)[2], document |-> NoDocument,
     sampleIDObject |-> [id |-> <<>>], rendered |-> <<>>,
     html |-> [sample |-> <<>>, url |-> "<none>"], error |-> NoError]

IdleLookup == [NewLookup([documentURL |-> "<none>", sampleID |-> <<>>]) EXCEPT !.pc = "idle"]

\* Documents the store may hold under a URL.
StoredDocuments(url) ==
    IF url = "/en-US/docs/B" THEN {}
    ELSE { Document(url, f, <<"a">>, EnUS, FALSE, r) :
             f \in {i \in FileInfos : i.folder = UrlToFolderPath(url)}, r \in LiveSources }

\* Variant: the declared id is compared as it is written.
MatchingSampleExact(sampleIds, sampleID) ==
    LET hits == {i \in 1..Len(sampleIds) : sampleIds[i].id = sampleID}
    IN  IF hits = {} THEN 0 ELSE CHOOSE i \in hits : \A k \in hits : i <= k

\* The index of the first declared sample whose lower-cased id is the requested
\* id, or 0.
MatchingSample(sampleIds, sampleID) ==
    LET hits == {i \in 1..Len(sampleIds) : ToLowerCase(sampleIds[i].id) = sampleID}
    IN  IF hits = {} THEN 0 ELSE CHOOSE i \in hits : \A k \in hits : i <= k

\* Variant: the document is rendered before its samples are searched.
LookupSegmentRendersFirst(url, found) ==
    LET s == NewLookup(url) IN
    IF found = NoDocument
    THEN Throw(s, NewError("No document found for", <<s.documentURL>>))
    ELSE LET sampleIds == GetLiveSampleIDs(found.metadata.slug, found.rawHTML)
             i == MatchingSample(sampleIds, s.sampleID)
             r == [s EXCEPT !.document = found, !.rendered = Append(@, found.url)]
         IN  IF i = 0
             THEN Throw(r, NewError("No live-sample found within", <<s.documentURL>>))
             ELSE [r EXCEPT !.sampleIDObject = sampleIds[i], !.pc = "awaitRender"]

\* From the call to the await of kumascript.render, or to the not-found throw.
\* found is what Document.findByURL returns.
LookupSegment(url, found) ==
    LET s == NewLookup(url) IN
    IF found = NoDocument
    THEN Throw(s, NewError("No document found for", <<s.documentURL>>))
    ELSE LET sampleIds == GetLiveSampleIDs(found.metadata.slug, found.rawHTML)
             i == MatchingSample(sampleIds, s.sampleID)
         IN  IF i = 0
             THEN Throw([s EXCEPT !.document = found],
                        NewError("No live-sample found within", <<s.documentURL>>))
             ELSE [s EXCEPT !.document = found, !.sampleIDObject = sampleIds[i],
                            !.rendered = Append(@, found.url), !.pc = "awaitRender"]

\* kumascript.render returned: build the page of the matched sample.
LookupRendered(s, html, builds) ==
    LET liveSamplePage == BuildLiveSamplePage(s.document.url, s.document.metadata.title,
                                              html, s.sampleIDObject, builds)
    IN  IF liveSamplePage.flaw # NoFlaw
        THEN Throw(s, NewError(liveSamplePage.flaw.message, <<>>))
        ELSE [s EXCEPT !.pc = "returned", !.html = liveSamplePage.html]

---------------------------------------------------------------------------
(* The process: it serves one call at a time *)

\* No pure function is being called.
NoUnit == [op |-> "none"]

Init ==
    /\ b = IdleCall
    /\ j = IdleLookup
    /\ renderCache = {}
    /\ b2 = IdleCall
    /\ rootToGitBranchMap = <<>>
    /\ unit = NoUnit

\* The process environment getCurrentGitBranch reads.
TopicEnv == [GITHUB_REF |-> <<>>, git |-> <<"topic">>]

Idle == b.pc = "idle" /\ j.pc = "idle" /\ b2.pc = "idle"

\* What injectFlaws does in a call: it raises one of these, or (NoError) nothing.
Raised == StageErrors \cup {NoError}

\* buildDocument(document, documentOptions) is called and runs to its first await.
CallBuildDocument ==
    /\ Idle
    /\ \E document \in Documents, buildOptions \in BuildOptions,
          documentOptions \in DocumentOptions :
        \E raised \in IF document.isArchive THEN Raised ELSE {NoError} :
          LET s == FirstSegment(NewCall(document,
                                        MergeOptions(buildOptions, documentOptions)),
                                raised)
          IN  /\ b' = Unwind(s)
              /\ renderCache' = IF "renderCache.reset" \in Range(s.trace)
                                THEN {} ELSE renderCache
    /\ UNCHANGED <<j, rootToGitBranchMap, b2, unit>>

\* kumascript.render resolves: the call resumes and runs to its next await.
RenderReturns ==
    /\ b.pc = "awaitRender"
    /\ \E html \in Htmls, flaws \in MacroFlawLists, raised \in Raised,
          builds \in [1..Len(b.document.rawHTML.samples) -> BOOLEAN] :
          b' = Unwind(RenderedSegment(b, html, flaws, builds, raised))
    /\ renderCache' = renderCache \cup {b.document.url}
    /\ UNCHANGED <<j, rootToGitBranchMap, b2, unit>>

\* kumascript.render rejects.
RenderThrows ==
    /\ b.pc = "awaitRender"
    /\ \E error \in RenderErrors : b' = Unwind(RenderThrew(b, error))
    /\ UNCHANGED <<j, renderCache, rootToGitBranchMap, b2, unit>>

\* fixFixableFlaws resolves: the call resumes and runs to its return.
FixReturns ==
    /\ b.pc = "awaitFix"
    /\ b' = Unwind(LastSegment(b, NoDocument, rootToGitBranchMap, TopicEnv))
    /\ rootToGitBranchMap' = SetGitBranch(rootToGitBranchMap, b.document.fileInfo.root, TopicEnv)
    /\ UNCHANGED <<j, renderCache, b2, unit>>

\* fixFixableFlaws rejects.
FixThrows ==
    /\ b.pc = "awaitFix"
    /\ \E error \in StageErrors : b' = Unwind(FixThrew(b, error))
    /\ UNCHANGED <<j, renderCache, rootToGitBranchMap, b2, unit>>

\* The caller has taken the result or the error of buildDocument.
BuildSettles ==
    /\ b.pc \in {"returned", "thrown"}
    /\ b' = IdleCall
    /\ UNCHANGED <<j, renderCache, rootToGitBranchMap, b2, unit>>

\* Requests for a live-sample page.
SampleURLs == {[documentURL |-> u, sampleID |-> i] : u \in URLs, i \in RequestedIds}

\* buildLiveSamplePageFromURL(url) is called and runs to its await, or throws.
CallLiveSamplePage ==
    /\ Idle
    /\ \E url \in SampleURLs :
          \E found \in StoredDocuments(url.documentURL) \cup {NoDocument} :
              j' = LookupSegment(url, found)
    /\ UNCHANGED <<b, renderCache, rootToGitBranchMap, b2, unit>>

\* kumascript.render resolves for the lookup.
LookupRenderReturns ==
    /\ j.pc = "awaitRender"
    /\ \E html \in Htmls, builds \in BOOLEAN : j' = LookupRendered(j, html, builds)
    /\ renderCache' = renderCache \cup {j.document.url}
    /\ UNCHANGED <<b, rootToGitBranchMap, b2, unit>>

\* kumascript.render rejects for the lookup.
LookupRenderThrows ==
    /\ j.pc = "awaitRender"
    /\ \E error \in RenderErrors : j' = Throw(j, error)
    /\ UNCHANGED <<b, renderCache, rootToGitBranchMap, b2, unit>>

\* The caller has taken the page or the error of the lookup.
LookupSettles ==
    /\ j.pc \in {"returned", "thrown"}
    /\ j' = IdleLookup
    /\ UNCHANGED <<b, renderCache, rootToGitBranchMap, b2, unit>>

Next ==
    \/ CallBuildDocument
    \/ RenderReturns
    \/ RenderThrows
    \/ FixReturns
    \/ FixThrows
    \/ BuildSettles
    \/ CallLiveSamplePage
    \/ LookupRenderReturns
    \/ LookupRenderThrows
    \/ LookupSettles

Spec == Init /\ [][Next]_vars

---------------------------------------------------------------------------
(* Two builds in flight: the calls b and b2 interleave at their awaits *)

\* The documents the two builds are given: one that is rendered, under the
\* content root, and an archived one under another root.
ConcurrentDocuments ==
    { Document("/en-US/docs/A", [folder |-> "en-us/a", path |-> "en-us/a/index.html",
                                 root |-> CONTENT_ROOT],
               <<"a">>, EnUS, FALSE, RawSource(<<>>, <<>>)),
      Document("/en-US/docs/B", [folder |-> "en-us/b", path |-> "en-us/b/index.html",
                                 root |-> "archived-content/files"],
               <<"a">>, EnUS, TRUE, RawSource(<<PlainP, FlawedLink>>, <<>>)) }

\* Their effective options.
ConcurrentOptions == {Options(FLAW_LEVELS.WARN, FALSE), Options(FLAW_LEVELS.IGNORE, TRUE)}

\* buildDocument is called in a slot that is free.
EitherCalled ==
    LET Called(cur, new) ==
            /\ cur.pc = "idle" /\ j.pc = "idle"
            /\ \E document \in ConcurrentDocuments, options \in ConcurrentOptions :
                  LET s == FirstSegment(NewCall(document, options), NoError)
                  IN  /\ new = Unwind(s)
                      /\ renderCache' = IF "renderCache.reset" \in Range(s.trace)
                                        THEN {} ELSE renderCache
            /\ UNCHANGED <<j, rootToGitBranchMap, unit>>
    IN  \/ Called(b, b') /\ UNCHANGED b2
        \/ Called(b2, b2') /\ UNCHANGED b

\* kumascript.render resolves for the call of a slot.
EitherRenderReturns ==
    LET htmls == {<<PlainP, FlawedLink>>, <<SidebarLink, Warning>>}
        flawLists == {l \in MacroFlawLists : Len(l) <= 1}
        Returns(cur, new) ==
            /\ cur.pc = "awaitRender"
            /\ \E html \in htmls, flaws \in flawLists :
                  new = Unwind(RenderedSegment(cur, html, flaws, <<>>, NoError))
            /\ renderCache' = renderCache \cup {cur.document.url}
            /\ UNCHANGED <<j, rootToGitBranchMap, unit>>
    IN  \/ Returns(b, b') /\ UNCHANGED b2
        \/ Returns(b2, b2') /\ UNCHANGED b

\* kumascript.render rejects for the call of a slot.
EitherRenderThrows ==
    LET Throws(cur, new) ==
            /\ cur.pc = "awaitRender"
            /\ \E error \in RenderErrors : new = Unwind(RenderThrew(cur, error))
            /\ UNCHANGED <<j, renderCache, rootToGitBranchMap, unit>>
    IN  \/ Throws(b, b') /\ UNCHANGED b2
        \/ Throws(b2, b2') /\ UNCHANGED b

\* fixFixableFlaws resolves for the call of a slot: it runs to its return.  The
\* process environment is that of a topic branch or of a pull-request build.
EitherFixReturns ==
    LET envs == {TopicEnv, [GITHUB_REF |-> <<"refs", "heads", "pr", "1">>,
                            git |-> <<"<throws>">>]}
        Returns(cur, new) ==
            /\ cur.pc = "awaitFix"
            /\ \E env \in envs :
                  /\ new = Unwind(LastSegment(cur, NoDocument, rootToGitBranchMap, env))
                  /\ rootToGitBranchMap' =
                         SetGitBranch(rootToGitBranchMap, cur.document.fileInfo.root, env)
            /\ UNCHANGED <<j, renderCache, unit>>
    IN  \/ Returns(b, b') /\ UNCHANGED b2
        \/ Returns(b2, b2') /\ UNCHANGED b

\* The caller of a slot has taken the result or the error.
EitherSettles ==
    LET Settles(cur, new) ==
            /\ cur.pc \in {"returned", "thrown"}
            /\ new = IdleCall
            /\ UNCHANGED <<j, renderCache, rootToGitBranchMap, unit>>
    IN  \/ Settles(b, b') /\ UNCHANGED b2
        \/ Settles(b2, b2') /\ UNCHANGED b

NextConcurrent ==
    \/ EitherCalled
    \/ EitherRenderReturns
    \/ EitherRenderThrows
    \/ EitherFixReturns
    \/ EitherSettles

SpecConcurrent == Init /\ [][NextConcurrent]_vars

---------------------------------------------------------------------------
(* One build at a time, of documents that differ in what the derived       *)
(* fields read: the translations, the slug and the three flags             *)

\* The en-US document Document.findByURL finds for a translation_of.
EnglishDocument ==
    [Document("/en-US/docs/a", [folder |-> "en-us/a", path |-> "en-us/a/index.html",
                                root |-> CONTENT_ROOT],
              <<"a">>, EnUS, FALSE, RawSource(<<>>, <<>>))
        EXCEPT !.metadata.title = "English title"]

PlainDocument ==
    Document("/en-US/docs/A", [folder |-> "en-us/a", path |-> "en-us/a/index.html",
                               root |-> CONTENT_ROOT],
             <<"a">>, EnUS, FALSE, RawSource(<<>>, <<>>))

\* The plain document with every combination of document.translations (missing,
\* empty, one entry) and metadata.translation_of (missing, "a"); and documents
\* with every combination of a slug and the flags isArchive, isTranslated, isActive.
DerivedDocuments ==
    LET french == [locale |-> <<"f", "r">>, title |-> "Titre", native |-> "Francais"]
        withOf == {PlainDocument,
                   [PlainDocument EXCEPT !.metadata = @ @@ [translation_of |-> <<"a">>]]}
        translated == withOf \cup {d @@ [translations |-> l] :
                                      d \in withOf, l \in {<<>>, <<french>>}}
        slugs == { <<"a">>, <<"MDN", "/", "Kitchensink">>, <<"mdn", "/", "kitchensink">>,
                   <<"orphaned", "/", "a">>, <<"conflicting", "/", "a">>,
                   <<"a", "/", "orphaned", "/", "a">>, <<"orphaned">> }
        flagged ==
            { [Document("/en-US/docs/A", PlainDocument.fileInfo, s, EnUS, a,
                        IF a THEN RawSource(<<PlainP, FlawedLink>>, <<>>)
                        ELSE RawSource(<<>>, <<>>))
                 EXCEPT !.isTranslated = tr, !.isActive = ac] :
                s \in slugs, a \in BOOLEAN, tr \in BOOLEAN, ac \in BOOLEAN }
    IN  translated \cup flagged

DerivedCalled ==
    /\ Idle
    /\ \E document \in DerivedDocuments, options \in ConcurrentOptions :
          LET s == FirstSegment(NewCall(document, options), NoError)
          IN  /\ b' = Unwind(s)
              /\ renderCache' = IF "renderCache.reset" \in Range(s.trace)
                                THEN {} ELSE renderCache
    /\ UNCHANGED <<j, rootToGitBranchMap, b2, unit>>

\* kumascript.render resolves with a page that has no flaw.
DerivedRenderReturns ==
    /\ b.pc = "awaitRender"
    /\ LET compat == Element("a", <<>>, FxHref, Absent, "top")
           htmls == {<<PlainP, FlawedLink>>, <<SidebarLink, PlainP, compat>>}
       IN  \E html \in htmls :
               b' = Unwind(RenderedSegment(b, html, <<>>, <<>>, NoError))
    /\ renderCache' = renderCache \cup {b.document.url}
    /\ UNCHANGED <<j, rootToGitBranchMap, b2, unit>>

\* fixFixableFlaws resolves; Document.findByURL finds the en-US document or not.
DerivedFixReturns ==
    /\ b.pc = "awaitFix"
    /\ \E translationOf \in {NoDocument, EnglishDocument} :
          b' = Unwind(LastSegment(b, translationOf, rootToGitBranchMap, TopicEnv))
    /\ rootToGitBranchMap' = SetGitBranch(rootToGitBranchMap, b.document.fileInfo.root, TopicEnv)
    /\ UNCHANGED <<j, renderCache, b2, unit>>

NextDerived ==
    \/ DerivedCalled
    \/ DerivedRenderReturns
    \/ RenderThrows
    \/ DerivedFixReturns
    \/ FixThrows
    \/ BuildSettles

SpecDerived == Init /\ [][NextDerived]_vars

---------------------------------------------------------------------------
(* The functions of the module called on their own: makeTOC on a body, and  *)
(* each post-processor on a tree, once and once more on its own result      *)

MaxSections == 2

\* The sections of a body, as far as makeTOC reads them: a type (the two that
\* makeTOC names, and one that stands for any other), an id and a title ("" when
\* missing), and isH3.
Sections ==
    { [type |-> ty, value |-> [id |-> id, title |-> title, isH3 |-> h]] :
        ty \in {"prose", "browser_compatibility", "specifications"},
        id \in {"", "x", "y"}, title \in {"", "T"}, h \in BOOLEAN }

\* makeTOC(doc) is called and returns.
TOCCalled ==
    /\ unit = NoUnit
    /\ \E body \in SeqsUpTo(Sections, MaxSections) :
          unit' = [op |-> "makeTOC", body |-> body, toc |-> makeTOC([body |-> body])]
    /\ UNCHANGED <<b, j, renderCache, b2, rootToGitBranchMap>>

MaxElements == 2

\* The elements the post-processors select, in the states they can be found
\* in.  A rel attribute is missing, empty, or words separated by a space or a tab.
PostElements ==
    LET rels == { NoValue, <<>>, <<"noopener">>, <<"nofollow">>,
                  <<"nofollow", " ", "noopener">>, <<"noopener", " ", "noopener">>,
                  <<"nofollow", "\t", "noopener">> }
        Anchor(href, class, rel) ==
            [Element("a", class, href, Absent, "top") EXCEPT !.rel = rel]
        Media(tag, loading) ==
            [Element(tag, <<>>, NoValue, Absent, "top") EXCEPT !.loading = loading]
    IN  {Anchor(h, <<>>, r) : h \in {ExampleHref, MdnHref}, r \in rels}
        \cup {Anchor(LocalHref, <<>>, NoValue), Anchor(NoValue, <<>>, NoValue),
              Anchor(ExampleHref, <<"external">>, <<" ", "noopener">>)}
        \cup {Element("pre", c, NoValue, Absent, "top") : c \in {<<>>, <<"notranslate">>}}
        \cup {Media("img", l) : l \in {Absent, "eager", "lazy"}}
        \cup {Media("iframe", Absent), PlainP}
        \cup {Element("div", c, NoValue, Absent, "top") :
                 c \in { <<"warning">>, <<"warning", "notecard">>,
                         <<"warning", "notecard", "notecard">>, <<"blockIndicator">>,
                         <<"note", "blockIndicator">>, <<"in-page-callout", "webdev">>,
                         <<"in-page-callout", "callout">>,
                         <<"in-page-callout", "warning">>,
                         <<"in-page-callout", "blockIndicator">> }}

PostProcessors ==
    {"injectNoTranslate", "injectLoadingLazyAttributes", "postProcessExternalLinks",
     "injectInPageCallout", "injectNotecardOnWarnings"}

\* The tree a post-processor leaves when it is given the tree.
PostProcess(name, tree) ==
    LET st == [tree |-> tree, trace |-> <<>>]
    IN  CASE name = "injectNoTranslate" -> injectNoTranslate(st).tree
          [] name = "injectLoadingLazyAttributes" -> injectLoadingLazyAttributes(st).tree
          [] name = "postProcessExternalLinks" -> postProcessExternalLinks(st).tree
          [] name = "injectInPageCallout" -> injectInPageCallout(st).tree
          [] name = "injectNotecardOnWarnings" -> injectNotecardOnWarnings(st).tree

\* A post-processor is called on a tree, and once more on the tree it left.
PostCalled ==
    /\ unit = NoUnit
    /\ \E name \in PostProcessors, tree \in SeqsUpTo(PostElements, MaxElements) :
          unit' = [op |-> name, tree |-> tree, once |-> PostProcess(name, tree),
                   twice |-> PostProcess(name, PostProcess(name, tree))]
    /\ UNCHANGED <<b, j, renderCache, b2, rootToGitBranchMap>>

\* The orders the five post-processors can be called in.
PostOrders == {o \in [1..5 -> PostProcessors] : \A name \in PostProcessors : \E k \in 1..5 : o[k] = name}

MaxOrdered == 1

\* The five post-processors are called on a tree one after the other, in an
\* order; the record holds what each one does to the tree on its own, and the
\* trees the orders leave.
PostAllCalled ==
    /\ unit = NoUnit
    /\ \E tree \in SeqsUpTo(PostElements, MaxOrdered) :
          unit' = [op |-> "postProcessAll", tree |-> tree,
                   each |-> [name \in PostProcessors |-> PostProcess(name, tree)],
                   results |-> {PostProcess(o[5], PostProcess(o[4], PostProcess(o[3],
                                    PostProcess(o[2], PostProcess(o[1], tree))))) :
                                   o \in PostOrders}]
    /\ UNCHANGED <<b, j, renderCache, b2, rootToGitBranchMap>>

\* The caller has taken the result.
UnitSettles ==
    /\ unit # NoUnit
    /\ unit' = NoUnit
    /\ UNCHANGED <<b, j, renderCache, b2, rootToGitBranchMap>>

NextFunctions == TOCCalled \/ PostCalled \/ PostAllCalled \/ UnitSettles

SpecFunctions == Init /\ [][NextFunctions]_vars

---------------------------------------------------------------------------
(* The account settings page: CloseAccount *)

MaxClicks == 6        \* clicks on the buttons of one CloseAccount
MaxRequests == 2      \* DELETE requests one CloseAccount sends

\* The component is mounted: useState(false) twice, useSWR with the key null.
CloseAccountShown ==
    /\ unit = NoUnit
    /\ unit' = [op |-> "CloseAccount", confirm |-> FALSE, certain |-> FALSE,
                request |-> "none", deleteError |-> FALSE, sent |-> 0,
                clicks |-> <<>>, page |-> "settings"]
    /\ UNCHANGED <<b, j, renderCache, b2, rootToGitBranchMap>>

\* Variant: the Yes button is there whether or not the prompt is shown.
YesClickedUnprompted ==
    /\ unit.op = "CloseAccount" /\ unit.page = "settings"
    /\ Len(unit.clicks) < MaxClicks
    /\ unit' = [unit EXCEPT !.certain = TRUE, !.clicks = Append(@, "Yes")]
    /\ UNCHANGED <<b, j, renderCache, b2, rootToGitBranchMap>>

\* confirm is false: the one button is "Close account"; onClick setConfirm(true)
CloseAccountClicked ==
    /\ unit.op = "CloseAccount" /\ unit.page = "settings"
    /\ ~unit.confirm
    /\ Len(unit.clicks) < MaxClicks
    /\ unit' = [unit EXCEPT !.confirm = TRUE, !.clicks = Append(@, "Close account")]
    /\ UNCHANGED <<b, j, renderCache, b2, rootToGitBranchMap>>

\* confirm is true: the button "Cancel"; onClick setConfirm(false)
CancelClicked ==
    /\ unit.op = "CloseAccount" /\ unit.page = "settings"
    /\ unit.confirm
    /\ Len(unit.clicks) < MaxClicks
    /\ unit' = [unit EXCEPT !.confirm = FALSE, !.clicks = Append(@, "Cancel")]
    /\ UNCHANGED <<b, j, renderCache, b2, rootToGitBranchMap>>

\* confirm is true: the button "Yes"; onClick setCertain(true)
YesClicked ==
    /\ unit.op = "CloseAccount" /\ unit.page = "settings"
    /\ unit.confirm
    /\ Len(unit.clicks) < MaxClicks
    /\ unit' = [unit EXCEPT !.certain = TRUE, !.clicks = Append(@, "Yes")]
    /\ UNCHANGED <<b, j, renderCache, b2, rootToGitBranchMap>>

\* useSWR(certain ? "/api/v1/settings" : null, ...): once the key is set the
\* fetcher runs, fetch(url, { method: "DELETE" }).
DeleteIssued ==
    /\ unit.op = "CloseAccount" /\ unit.page = "settings"
    /\ unit.certain /\ unit.request = "none"
    /\ unit' = [unit EXCEPT !.request = "pending", !.sent = @ + 1]
    /\ UNCHANGED <<b, j, renderCache, b2, rootToGitBranchMap>>

\* response.ok: alert, mutate("/api/v1/whoami"), navigate to the home page.
DeleteSucceeds ==
    /\ unit.op = "CloseAccount" /\ unit.request = "pending"
    /\ unit' = [unit EXCEPT !.request = "ok", !.deleteError = FALSE, !.page = "home"]
    /\ UNCHANGED <<b, j, renderCache, b2, rootToGitBranchMap>>

\* !response.ok: the fetcher throws, deleteError is set and shown.
DeleteFails ==
    /\ unit.op = "CloseAccount" /\ unit.request = "pending"
    /\ unit' = [unit EXCEPT !.request = "failed", !.deleteError = TRUE]
    /\ UNCHANGED <<b, j, renderCache, b2, rootToGitBranchMap>>

\* useSWR revalidates a key that failed (only revalidateOnFocus is turned off):
\* the fetcher runs again.
DeleteRetried ==
    /\ unit.op = "CloseAccount" /\ unit.page = "settings"
    /\ unit.request = "failed" /\ unit.sent < MaxRequests
    /\ unit' = [unit EXCEPT !.request = "pending", !.sent = @ + 1]
    /\ UNCHANGED <<b, j, renderCache, b2, rootToGitBranchMap>>

NextAccount ==
    \/ CloseAccountShown
    \/ CloseAccountClicked
    \/ CancelClicked
    \/ YesClicked
    \/ DeleteIssued
    \/ DeleteSucceeds
    \/ DeleteFails
    \/ DeleteRetried

SpecAccount == Init /\ [][NextAccount]_vars

---------------------------------------------------------------------------
(* Properties *)

Active == b.pc # "idle"

Policy == b.options.flawLevels.macros

Ran(stage) == stage \in Range(b.trace)

LastStage == b.trace[Len(b.trace)]

FlawErrorMessage == "Flaw error encountered"

\* The flaws the macro render reported, and the samples the engine failed to build.
RenderFlaws == SelectSeq(b.flaws, LAMBDA f : f.name # LiveSampleFlaw.name)
FailedSamples == SelectSeq(b.visited, LAMBDA v : ~v.built)
BuiltSamples == SelectSeq(b.visited, LAMBDA v : v.built)

\* C1: when the macros policy is "error" and the macro render reported at least
\* one flaw, the call throws "Flaw error encountered" and leaves no output; the
\* policy stage is the last stage that ran, the tree was not loaded, and every
\* collected flaw was written to the console before the throw.
C1_ErrorPolicyThrows ==
    (Active /\ Policy = FLAW_LEVELS.ERROR /\ Ran("getLiveSampleIDs") /\ RenderFlaws # <<>>) =>
        /\ b.pc = "thrown"
        /\ b.error = NewError(FlawErrorMessage, <<>>)
        /\ b.doc = <<>>
        /\ ~b.loaded /\ ~Ran("load")
        /\ LastStage = "macroFlawPolicy"
        /\ \A i \in 1..Len(b.flaws) :
              \E k \in 1..Len(b.console) :
                  b.console[k].n = i /\ b.console[k].text = b.flaws[i].name

C1_Witness ==
    /\ b.pc = "thrown"
    /\ b.error.message = FlawErrorMessage
    /\ Len(RenderFlaws) >= 2
    /\ FailedSamples # <<>>

\* The macro flaw records of the output that stand for a failed live sample.
RecordedSampleFlaws ==
    IF "macros" \in DOMAIN b.doc.flaws
    THEN {i \in DOMAIN b.doc.flaws.macros : b.doc.flaws.macros[i].name = LiveSampleFlaw.name}
    ELSE {}

\* C2 (as stated): under every macros policy a failed live sample does not make
\* the call throw, and the failure is a flaw record of the returned output.
C2_AsStated ==
    (Active /\ FailedSamples # <<>> /\ RenderFlaws = <<>>) =>
        /\ b.error.message # FlawErrorMessage
        /\ (b.pc = "returned" => RecordedSampleFlaws # {})

\* C2 (amended): a failed live sample is a macro flaw like the others.  Under
\* "warn" the call does not throw for it and every failure is a record of
\* flaws.macros in the output; under "error" the call throws "Flaw error
\* encountered"; under "ignore" the call does not throw for it and the output
\* has no flaws.macros entry.
C2_Amended ==
    (Active /\ FailedSamples # <<>>) =>
        /\ Policy = FLAW_LEVELS.WARN =>
              /\ b.error.message # FlawErrorMessage
              /\ (b.pc \in {"awaitFix", "returned"} =>
                     Cardinality(RecordedSampleFlaws) = Len(FailedSamples))
        /\ Policy = FLAW_LEVELS.ERROR =>
              b.pc = "thrown" /\ b.error.message = FlawErrorMessage
        /\ Policy = FLAW_LEVELS.IGNORE =>
              /\ b.error.message # FlawErrorMessage
              /\ (b.pc \in {"awaitFix", "returned"} => "macros" \notin DOMAIN b.doc.flaws)

C2_Witness ==
    /\ b.pc = "returned"
    /\ Policy = FLAW_LEVELS.WARN
    /\ RenderFlaws = <<>>
    /\ Len(FailedSamples) = 1
    /\ RecordedSampleFlaws # {}

\* C3: once the loop has run, every declared sample was handed to the engine,
\* in declared order; the collected live samples are the pages of the samples
\* the engine built, in that order; and each failure appended its flaw, with
\* the document's path, to the flaw list.
C3_LoopVisitsEverySample ==
    Ran("getLiveSampleIDs") =>
        LET declared == b.document.rawHTML.samples
            first == Len(b.flaws) - Len(FailedSamples)
        IN  /\ ~b.document.isArchive
            /\ Len(b.visited) = Len(declared)
            /\ \A i \in 1..Len(declared) : b.visited[i].id = declared[i].id
            /\ Len(b.liveSamples) = Len(BuiltSamples)
            /\ \A k \in 1..Len(BuiltSamples) :
                  b.liveSamples[k].html.sample = BuiltSamples[k].id
            /\ first >= 0
            /\ \A k \in 1..Len(FailedSamples) :
                  b.flaws[first + k] = UpdateFileInfo(LiveSampleFlaw, b.document.fileInfo)

C3_Witness ==
    /\ b.pc = "returned"
    /\ Len(b.visited) = 2
    /\ ~b.visited[1].built
    /\ b.visited[2].built
    /\ Len(b.liveSamples) = 1

UpperCase == {"A", "B", "U", "S"}

\* x is y with every upper-case letter replaced by its lower-case letter.
IsLowerCaseOf(x, y) ==
    /\ Len(x) = Len(y)
    /\ \A i \in 1..Len(x) :
          /\ x[i] \notin UpperCase
          /\ (y[i] \notin UpperCase => x[i] = y[i])
          /\ (y[i] \in UpperCase => <<y[i], x[i]>> \in {<<"A", "a">>, <<"B", "b">>,
                                                        <<"U", "u">>, <<"S", "s">>})

SameIgnoringCase(x, y) == \E z \in {ToLowerCase(x)} : IsLowerCaseOf(z, y)

Distinct(ids) == \A p, q \in 1..Len(ids) : p # q => ids[p] # ids[q]

\* C4 (as stated): every returned live sample stores the id as declared, case
\* preserved, and the returned ids are pairwise distinct.
C4_AsStated ==
    b.pc = "returned" =>
        /\ \A k \in 1..Len(b.liveSamples) : b.liveSamples[k].id = b.liveSamples[k].html.sample
        /\ Distinct([k \in 1..Len(b.liveSamples) |-> b.liveSamples[k].id])

\* C4 (amended): every returned live sample stores the lower-cased form of its
\* declared id, and the returned ids are pairwise distinct whenever no two
\* declared ids are equal ignoring case.
C4_Amended ==
    b.pc = "returned" =>
        LET declared == b.document.rawHTML.samples IN
        /\ \A k \in 1..Len(b.liveSamples) :
              IsLowerCaseOf(b.liveSamples[k].id, b.liveSamples[k].html.sample)
        /\ (\A p, q \in 1..Len(declared) :
                p # q => ~SameIgnoringCase(declared[p].id, declared[q].id))
           => Distinct([k \in 1..Len(b.liveSamples) |-> b.liveSamples[k].id])

C4_Witness ==
    /\ b.pc = "returned"
    /\ Len(b.liveSamples) = 2
    /\ b.liveSamples[1].id # b.liveSamples[1].html.sample
    /\ b.liveSamples[1].id # b.liveSamples[2].id

\* buildLiveSamplePageFromURL

Looking == j.pc # "idle"

NoDocumentMessage == "No document found for"
NoSampleMessage == "No live-sample found within"

Declared == j.document.rawHTML.samples

\* C5 (as stated): a requested id that differs only in letter case from a
\* declared id resolves to that sample: the lookup never answers that there is
\* no such sample.
C5_AsStated ==
    (Looking /\ j.document # NoDocument
       /\ \E i \in 1..Len(Declared) : SameIgnoringCase(Declared[i].id, j.sampleID)) =>
        j.error.message # NoSampleMessage

\* C5 (amended): the lookup resolves exactly the requests that are the
\* lower-cased form of a declared id, to the first declared sample with that
\* lower-cased id, and a lookup that returns returns that sample's page; every
\* other request, one holding an upper-case letter included, fails with the
\* not-found error.
C5_Amended ==
    (Looking /\ j.document # NoDocument) =>
        LET hits == {i \in 1..Len(Declared) : IsLowerCaseOf(j.sampleID, Declared[i].id)} IN
        /\ hits = {} <=> (j.pc = "thrown" /\ j.error.message = NoSampleMessage)
        /\ hits # {} =>
              /\ \E i \in hits : (\A k \in hits : i <= k) /\ j.sampleIDObject = Declared[i]
              /\ (j.pc = "returned" =>
                     j.html = [sample |-> j.sampleIDObject.id, url |-> j.document.url])
        /\ (\E n \in 1..Len(j.sampleID) : j.sampleID[n] \in UpperCase) => j.pc = "thrown"

C5_Witness ==
    /\ j.pc = "returned"
    /\ j.sampleIDObject.id # j.sampleID
    /\ j.html.sample = <<"a", "B">>

\* C6: with no document under the URL, or no declared sample matching the
\* request, the lookup fails with a not-found error and the macro engine was not
\* asked to render; the engine is asked at most once, for the found document
\* only, and only when a sample matched.
C6_NotFoundWithoutRender ==
    Looking =>
        /\ j.document = NoDocument =>
              /\ j.pc = "thrown" /\ j.error.message = NoDocumentMessage
              /\ j.rendered = <<>>
        /\ (j.document # NoDocument
              /\ \A i \in 1..Len(Declared) : ~IsLowerCaseOf(j.sampleID, Declared[i].id)) =>
              /\ j.pc = "thrown" /\ j.error.message = NoSampleMessage
              /\ j.rendered = <<>>
        /\ j.rendered \in {<<>>, <<j.document.url>>}
        /\ j.rendered # <<>> =>
              /\ j.document # NoDocument
              /\ \E i \in 1..Len(Declared) : Declared[i] = j.sampleIDObject

C6_Witness ==
    /\ j.pc = "thrown"
    /\ j.error.message = NoSampleMessage
    /\ j.document # NoDocument
    /\ Len(Declared) = 2
    /\ j.rendered = <<>>

\* A slug that is empty, starts or ends with "/", or holds "//".
InsaneSlug(slug) ==
    \/ Len(slug) = 0
    \/ slug[1] = "/"
    \/ slug[Len(slug)] = "/"
    \/ \E i \in 1..(Len(slug) - 1) : slug[i] = "/" /\ slug[i + 1] = "/"

\* C7: a call for a document whose slug is empty, starts with "/", ends with
\* "/" or contains "//" never returns and never loads the tree; once the call
\* has reached the validation it has thrown, validation being the last stage.
C7_BadSlugThrowsBeforeLoad ==
    (Active /\ InsaneSlug(b.document.metadata.slug)) =>
        /\ b.pc \in {"awaitRender", "thrown"}
        /\ b.doc = <<>> \/ b.pc = "awaitRender"
        /\ ~b.loaded /\ ~Ran("load")
        /\ Ran("validateSlug") =>
              /\ b.pc = "thrown"
              /\ LastStage = "validateSlug"
              /\ b.error.details = <<b.document.metadata.slug>>

C7_Witness ==
    /\ b.pc = "thrown"
    /\ b.error.message = "Slug contains a double /"
    /\ b.document.metadata.slug = <<"a", "/", "/", "a">>
    /\ Ran("getLiveSampleIDs")

\* C8: when the folder derived from the URL is not the folder on disk, the call
\* has thrown and the folder check is the only thing that happened: no render,
\* no reset of the render cache, no sample handed to the engine, no tree.
C8_FolderMismatchThrowsFirst ==
    (Active /\ UrlToFolderPath(b.document.url) # b.document.fileInfo.folder) =>
        /\ b.pc = "thrown"
        /\ b.error.message = "The document's slug doesn't match its disk folder name"
        /\ b.trace = <<"checkFolder">>
        /\ b.visited = <<>> /\ b.liveSamples = <<>>
        /\ ~b.loaded
        /\ b.console = <<>>
        /\ b.doc = <<>>

C8_Witness ==
    /\ b.pc = "thrown"
    /\ b.trace = <<"checkFolder">>
    /\ b.options.clearKumascriptRenderCache
    /\ ~b.document.isArchive
    /\ b.document.rawHTML.samples # <<>>

\* The elements of the HTML the output holds: the sections' content and the sidebar.
OutputElements ==
    UNION {Range(b.doc.body[i].value.content) : i \in 1..Len(b.doc.body)}
    \cup Range(b.doc.sidebarHTML)

\* C9: a call that returns under the "ignore" level returns HTML, body
\* sections and sidebar, in which no element carries data-flaw-src.
C9_IgnoreLeavesNoFlawMarker ==
    (b.pc = "returned" /\ Policy = FLAW_LEVELS.IGNORE) =>
        \A e \in OutputElements : e.dataFlawSrc = Absent

C9_Witness ==
    /\ b.pc = "returned"
    /\ Policy = FLAW_LEVELS.IGNORE
    /\ b.flaws # <<>>
    /\ \E e \in OutputElements : e.tag = "a" /\ e.href = ExampleHref

\* The catch around injectFlaws ran: it wrote its warning.
InjectFlawsRaised == \E k \in 1..Len(b.console) : b.console[k].text = "Injecting flaws failed"

\* C10 (as stated): when injectFlaws raises, the error that reaches the caller
\* carries the document's file path.
C10_AsStated ==
    (b.pc = "thrown" /\ InjectFlawsRaised) =>
        \/ b.error.filepath = b.document.fileInfo.path
        \/ b.document.fileInfo.path \in Range(b.error.details)

\* C10 (amended): when injectFlaws raises, the call throws with injectFlaws as
\* its last stage and no output; the document's file path is written to the
\* console as a warning, and the error that reaches the caller is the error
\* injectFlaws raised, unchanged, without the path.
C10_Amended ==
    (Active /\ InjectFlawsRaised) =>
        /\ b.pc = "thrown"
        /\ LastStage = "injectFlaws"
        /\ b.doc = <<>>
        /\ b.error \in StageErrors
        /\ b.error.filepath = NoPath
        /\ b.console[Len(b.console)] =
              Line("warn", "Injecting flaws failed", 0, b.document.fileInfo.path)

C10_Witness ==
    /\ b.pc = "thrown"
    /\ InjectFlawsRaised
    /\ Ran("render")
    /\ Ran("extractSidebar")

\* The call ended in the catch around kumascript.render.
RenderFailed == b.pc = "thrown" /\ b.trace # <<>> /\ LastStage = "render"

\* C11: when kumascript.render rejects, the call throws at once: no sample was
\* handed to the engine and no tree was loaded.  A MacroInvocationError reaches
\* the caller as a new Error that carries the file path, the line, the column
\* and the message of the cause; any other error reaches the caller as it was
\* raised.
C11_RenderErrorPropagation ==
    RenderFailed =>
        /\ b.visited = <<>> /\ b.liveSamples = <<>>
        /\ ~b.loaded /\ ~Ran("load") /\ ~Ran("getLiveSampleIDs")
        /\ b.doc = <<>>
        /\ b.error.name # "MacroInvocationError"
        /\ \/ \E e \in RenderErrors :
                 /\ e.name # "MacroInvocationError"
                 /\ b.error = e
           \/ \E e \in RenderErrors :
                 /\ e.name = "MacroInvocationError"
                 /\ b.error.name = "Error"
                 /\ b.error.message = "MacroInvocationError trying to parse"
                 /\ b.error.details = <<b.document.fileInfo.path>> \o e.details \o <<e.message>>

C11_Witness ==
    /\ RenderFailed
    /\ b.error.details = <<"en-us/a/index.html", "line 12", "column 7", "unexpected token">>
    /\ b.document.rawHTML.samples # <<>>

\* Two builds in flight (SpecConcurrent)

\* Both calls have returned, and they were given the same document, the same
\* options and the same HTML by the macro engine.
SameRun ==
    /\ b.pc = "returned" /\ b2.pc = "returned"
    /\ b.document = b2.document
    /\ b.options = b2.options
    /\ b.renderedHtml = b2.renderedHtml

C13_SourceReadOnly == Active => b.document = b.given

\* The slug begins with the given marker followed by "/".
BeginsWithMarker(slug, marker) == Len(slug) >= 2 /\ slug[1] = marker /\ slug[2] = "/"

\* C16: a build that returns sets noIndexing to TRUE exactly when the document
\* is archived and not a translation, or its slug is MDN/Kitchensink, or its
\* slug begins with orphaned/ or conflicting/; the three flags do not matter
\* for a slug that begins with orphaned/.
C16_NoIndexingDecision ==
    b.pc = "returned" =>
        LET d == b.given
            slug == d.metadata.slug
            kitchensink == Len(slug) = 3 /\ slug[1] = "MDN" /\ slug[2] = "/"
                                     /\ slug[3] = "Kitchensink"
            expected == \/ (d.isArchive /\ ~d.isTranslated)
                        \/ kitchensink
                        \/ BeginsWithMarker(slug, "orphaned")
                        \/ BeginsWithMarker(slug, "conflicting")
        IN  /\ b.doc.noIndexing \in BOOLEAN
            /\ b.doc.noIndexing <=> expected
            /\ BeginsWithMarker(slug, "orphaned") => b.doc.noIndexing

C16_Witness ==
    /\ b.pc = "returned"
    /\ b.doc.noIndexing
    /\ BeginsWithMarker(b.given.metadata.slug, "orphaned")
    /\ ~b.given.isArchive /\ b.given.isTranslated /\ ~b.given.isActive

\* C20: in a build that returns, other_translations is the translations list
\* the document came with when that list is not empty; otherwise, when the
\* metadata names a translation_of and Document.findByURL finds that en-US
\* document, it is the one entry for en-US with that document's title;
\* otherwise the output has no other_translations field.
C20_OtherTranslations ==
    b.pc = "returned" =>
        LET d == b.given
            supplied == IF "translations" \in DOMAIN d THEN d.translations ELSE <<>>
            declares == "translation_of" \in DOMAIN d.metadata
            found == b.lookups # <<>> /\ b.lookups[1].found # NoDocument
            has == "other_translations" \in DOMAIN b.doc
        IN  /\ supplied # <<>> => has /\ b.doc.other_translations = supplied /\ b.lookups = <<>>
            /\ (supplied = <<>> /\ declares) =>
                  /\ Len(b.lookups) = 1
                  /\ b.lookups[1].url = <<"/en-US/docs/">> \o d.metadata.translation_of
            /\ (supplied = <<>> /\ ~declares) => b.lookups = <<>>
            /\ (supplied = <<>> /\ declares /\ found) =>
                  /\ has
                  /\ Len(b.doc.other_translations) = 1
                  /\ b.doc.other_translations[1].locale = EnUS
                  /\ b.doc.other_translations[1].title = b.lookups[1].found.metadata.title
            /\ (supplied = <<>> /\ ~(declares /\ found)) => ~has

C20_Witness ==
    /\ b.pc = "returned"
    /\ "translations" \notin DOMAIN b.given
    /\ "other_translations" \in DOMAIN b.doc
    /\ b.doc.other_translations[1].title = "English title"

\* C14 (as stated): while builds of different documents interleave, the
\* macro-render cache is the only module-level state that is written, so the
\* map from content roots to branch names never changes.
C14_OnlyRenderCacheWritten == [][rootToGitBranchMap' = rootToGitBranchMap]_vars

\* The step takes the call of a slot from the await of fixFixableFlaws to its
\* return, through injectSource, and the map gains the root of its document.
AddsItsRoot(cur, new) ==
    /\ cur.pc = "awaitFix" /\ new.pc = "returned"
    /\ "injectSource" \in Range(new.trace)
    /\ cur.document.fileInfo.root \notin DOMAIN rootToGitBranchMap
    /\ DOMAIN rootToGitBranchMap' = DOMAIN rootToGitBranchMap \cup {cur.document.fileInfo.root}

\* C14: while builds of different documents interleave, the module-level
\* state that is written is the macro-render cache and the map from content
\* roots to branch names; the map keeps every entry it has, and changes only
\* when a build that returns adds the root of its own document; a step of one
\* build leaves the locals of the other build alone.
C14_ModuleStateWritten ==
    [][ /\ \A r \in DOMAIN rootToGitBranchMap :
              /\ r \in DOMAIN rootToGitBranchMap'
              /\ rootToGitBranchMap'[r] = rootToGitBranchMap[r]
        /\ rootToGitBranchMap' # rootToGitBranchMap =>
              AddsItsRoot(b, b') \/ AddsItsRoot(b2, b2')
        /\ b' = b \/ b2' = b2
        /\ j' = j /\ unit' = unit ]_vars

C14_Witness ==
    /\ Cardinality(DOMAIN rootToGitBranchMap) = 2
    /\ b.pc = "awaitFix" /\ b2.pc = "returned"
    /\ b.document.url # b2.document.url

\* The places of a stage in the trace of a call.
Places(call, stage) == {i \in DOMAIN call.trace : call.trace[i] = stage}

\* A call resets the cache only with the toggle set, once, before it renders.
ResetsByToggle(call) ==
    call.pc # "idle" =>
        /\ Cardinality(Places(call, "renderCache.reset")) <= 1
        /\ Places(call, "renderCache.reset") # {} => call.options.clearKumascriptRenderCache
        /\ \A i \in Places(call, "renderCache.reset"), k \in Places(call, "render") : i < k

\* The step is the entry of a call with the toggle set, up to its render call.
EntersResetting(cur, new) ==
    /\ cur.pc = "idle" /\ new.pc = "awaitRender"
    /\ new.options.clearKumascriptRenderCache

\* C15: while builds interleave, a build resets the macro-render cache only
\* when its effective options have clearKumascriptRenderCache set, at most
\* once and before its own render call; a build without it never resets, and
\* the cache loses entries only in the entry step of a build that has it.
C15_ResetOnlyByToggle ==
    /\ [](ResetsByToggle(b) /\ ResetsByToggle(b2))
    /\ [][ ~(renderCache \subseteq renderCache') =>
              /\ renderCache' = {}
              /\ EntersResetting(b, b') \/ EntersResetting(b2, b2') ]_vars

C15_Witness ==
    /\ b.pc = "awaitRender" /\ Places(b, "renderCache.reset") # {}
    /\ b2.pc = "returned" /\ ~b2.document.isArchive
    /\ ~b2.options.clearKumascriptRenderCache
    /\ renderCache = {}

\* The section is a top-level one with an id and a title.
TitledTopLevel(section) ==
    section.value.id # "" /\ section.value.title # "" /\ ~section.value.isH3

\* The table of contents lists, in body order, the sections at the given places.
ListsExactly(toc, body, places) ==
    /\ Len(toc) = Cardinality(places)
    /\ \A i \in places :
          LET n == Cardinality({m \in places : m <= i})
          IN  toc[n] = [text |-> body[i].value.title, id |-> body[i].value.id]

RECURSIVE HtmlTokens(_)
HtmlTokens(rel) ==
    IF rel = NoValue \/ rel = <<>> THEN <<>>
    ELSE IF rel[1] \in {" ", "\t"} THEN HtmlTokens(Tail(rel))
    ELSE LET ends == {k \in DOMAIN rel : rel[k] \in {" ", "\t"}}
             stop == IF ends = {} THEN Len(rel) + 1
                     ELSE CHOOSE k \in ends : \A m \in ends : k <= m
         IN  <<SubSeq(rel, 1, stop - 1)>> \o HtmlTokens(SubSeq(rel, stop, Len(rel)))

\* How many of the tokens of the rel are the word.
TokenCount(rel, word) ==
    Cardinality({i \in DOMAIN HtmlTokens(rel) : HtmlTokens(rel)[i] = <<word>>})

\* How many times the class list holds the name.
ClassCount(class, name) == Cardinality({i \in DOMAIN class : class[i] = name})

IsHttpAnchor(e) == e.tag = "a" /\ e.href # NoValue /\ e.href[1] = "http"

IsMdnAnchor(e) ==
    IsHttpAnchor(e) /\ Len(e.href) >= 3 /\ e.href[2] = "s://"
                    /\ e.href[3] = "developer.mozilla.org"

\* What C18 says of every anchor but the count of noopener.
ExternalLinksAnnotated ==
    \A i \in DOMAIN unit.tree :
        LET before == unit.tree[i]
            after == unit.once[i]
        IN  /\ IsMdnAnchor(before) => after = before
            /\ (IsHttpAnchor(before) /\ ~IsMdnAnchor(before)) =>
                  /\ "external" \in Range(after.class)
                  /\ TokenCount(after.rel, "noopener") >= 1
                  /\ Range(HtmlTokens(before.rel)) \subseteq Range(HtmlTokens(after.rel))

\* C18 (as stated): after postProcessExternalLinks an anchor to
\* developer.mozilla.org has the class and rel it had, and every other http
\* anchor has the class external and a rel that holds noopener exactly once
\* and every token it held before.
C18_NoopenerExactlyOnce ==
    unit.op = "postProcessExternalLinks" =>
        /\ Len(unit.once) = Len(unit.tree)
        /\ ExternalLinksAnnotated
        /\ \A i \in DOMAIN unit.tree :
              (IsHttpAnchor(unit.tree[i]) /\ ~IsMdnAnchor(unit.tree[i])) =>
                  TokenCount(unit.once[i].rel, "noopener") = 1

\* C18: after postProcessExternalLinks an anchor to developer.mozilla.org has
\* the class and rel it had, and every other http anchor has the class
\* external and a rel that holds noopener and every token it held before: the
\* rel is the one it had when a part of it between single spaces is noopener,
\* and the one it had with " noopener" appended otherwise, so that it holds
\* noopener exactly once when it held none before.
C18_ExternalLinks ==
    unit.op = "postProcessExternalLinks" =>
        /\ Len(unit.once) = Len(unit.tree)
        /\ ExternalLinksAnnotated
        /\ \A i \in DOMAIN unit.tree :
              (IsHttpAnchor(unit.tree[i]) /\ ~IsMdnAnchor(unit.tree[i])) =>
                  LET before == IF unit.tree[i].rel = NoValue THEN <<>> ELSE unit.tree[i].rel
                      after == unit.once[i].rel
                      had == \E k \in DOMAIN before :
                                /\ before[k] = "noopener"
                                /\ k = 1 \/ before[k - 1] = " "
                                /\ k = Len(before) \/ before[k + 1] = " "
                  IN  /\ had => after = unit.tree[i].rel
                      /\ ~had => after = before \o <<" ", "noopener">>
                      /\ TokenCount(before, "noopener") = 0 =>
                            TokenCount(after, "noopener") = 1

C18_Witness ==
    /\ unit.op = "postProcessExternalLinks"
    /\ Len(unit.tree) = 2
    /\ IsMdnAnchor(unit.tree[1]) /\ unit.tree[1].rel = <<"nofollow">>
    /\ unit.once[1].rel = <<"nofollow">>
    /\ unit.tree[2].href = ExampleHref /\ unit.tree[2].rel = <<"nofollow">>
    /\ unit.once[2].rel = <<"nofollow", " ", "noopener">>
    /\ unit.once[2].class = <<"external">>

\* After the processor has run, a div with the class warning has the class
\* notecard exactly once.
WarningsAreNotecards(tree) ==
    \A i \in DOMAIN tree :
        (tree[i].tag = "div" /\ "warning" \in Range(tree[i].class)) =>
            ClassCount(tree[i].class, "notecard") = 1

\* A second run of a processor changes nothing, and a first run leaves an
\* existing loading attribute as it is.
SecondRunChangesNothing ==
    /\ unit.twice = unit.once
    /\ Len(unit.once) = Len(unit.tree)
    /\ \A i \in DOMAIN unit.tree :
          /\ \A name \in Range(unit.once[i].class) :
                ClassCount(unit.twice[i].class, name) = ClassCount(unit.once[i].class, name)
          /\ \A word \in {"noopener", "nofollow"} :
                TokenCount(unit.twice[i].rel, word) = TokenCount(unit.once[i].rel, word)
          /\ unit.tree[i].loading # Absent => unit.once[i].loading = unit.tree[i].loading

\* C19 (as stated): each of the five post-processors applied twice to a tree
\* gives the tree it gives when applied once, no class or rel token is there
\* once more, no loading attribute is overwritten, and a div.warning has the
\* class notecard exactly once.
C19_NotecardExactlyOnce ==
    unit.op \in PostProcessors =>
        /\ SecondRunChangesNothing
        /\ unit.op = "injectNotecardOnWarnings" => WarningsAreNotecards(unit.twice)

\* C19: each of the five post-processors applied twice to a tree gives the
\* tree it gives when applied once, no class or rel token is there once more,
\* no loading attribute is overwritten, and a div.warning that had the class
\* notecard at most once has it exactly once, after one run and after two.
C19_Idempotent ==
    unit.op \in PostProcessors =>
        /\ SecondRunChangesNothing
        /\ unit.op = "injectNotecardOnWarnings" =>
              \A i \in DOMAIN unit.tree :
                  (/\ unit.tree[i].tag = "div"
                   /\ "warning" \in Range(unit.tree[i].class)
                   /\ ClassCount(unit.tree[i].class, "notecard") <= 1) =>
                      /\ ClassCount(unit.once[i].class, "notecard") = 1
                      /\ ClassCount(unit.twice[i].class, "notecard") = 1

C19_Witness ==
    /\ unit.op = "injectNotecardOnWarnings"
    /\ Len(unit.tree) = 2
    /\ unit.tree[1].class = <<"warning">>
    /\ unit.twice[1].class = <<"warning", "notecard">>
    /\ unit.tree[2].class = <<"note", "blockIndicator">>
    /\ unit.twice[2].class = <<"note", "notecard">>

\* The stages in the order the pipeline is to run them.
StageOrder ==
    << "checkFolder", "useRawHTML", "renderCache.reset", "render", "getLiveSampleIDs",
       "buildLiveSamplePage", "macroFlawPolicy", "validateSlug", "load",
       "stripFlawMarkers", "removeAllLinks", "identity", "extractSidebar",
       "checkImageReferences", "checkImageWidths", "injectFlaws", "rewriteUnsafeLinks",
       "fixFixableFlaws",
       "removeHidden", "syntaxHighlight", "injectNoTranslate",
       "injectLoadingLazyAttributes", "postProcessExternalLinks", "injectInPageCallout",
       "injectNotecardOnWarnings", "extractSections", "makeTOC", "extractSummary",
       "normalizeBCDURLs", "extractBCDData", "popularity", "modified",
       "otherTranslations", "injectSource", "addBreadcrumbData", "getPageTitle",
       "noIndexing", "return" >>

StageRank(stage) == CHOOSE r \in DOMAIN StageOrder : StageOrder[r] = stage

\* The stages that run in every build that gets as far as them.
UnconditionalStages ==
    { StageOrder[r] : r \in {r \in DOMAIN StageOrder :
                                 r = 1 \/ r >= StageRank("validateSlug")} }
        \ {"stripFlawMarkers"}

\* The stages of a non-archived build between the folder check and the slug.
RenderStages == {"render", "getLiveSampleIDs", "macroFlawPolicy"}

\* The stages that can end the build with a throw.
ThrowingStages ==
    {"checkFolder", "render", "macroFlawPolicy", "validateSlug", "identity",
     "injectFlaws", "fixFixableFlaws"}

\* The stages ran in the listed order, once each (the live-sample build once
\* per sample), and none that had its turn was skipped.
RanInOrder(call) ==
    LET trace == call.trace
        last == StageRank(trace[Len(trace)])
        due(stage) == StageRank(stage) < last
    IN  /\ \A k \in DOMAIN trace : trace[k] \in Range(StageOrder)
        /\ \A i, k \in DOMAIN trace :
              i < k => \/ StageRank(trace[i]) < StageRank(trace[k])
                       \/ trace[i] = "buildLiveSamplePage" /\ trace[k] = trace[i]
        /\ \A stage \in UnconditionalStages : due(stage) => stage \in Range(trace)
        /\ \A stage \in RenderStages :
              (due(stage) /\ ~call.document.isArchive /\ last > StageRank("macroFlawPolicy"))
                  => stage \in Range(trace)
        /\ (due("useRawHTML") /\ call.document.isArchive) => "useRawHTML" \in Range(trace)
        /\ call.pc = "thrown" => /\ trace[Len(trace)] \in ThrowingStages
                                 /\ "return" \notin Range(trace)
        /\ call.pc = "returned" => trace[Len(trace)] = "return"

\* C21: in every run of buildDocument the stages run in the listed order, each
\* after the one before it has finished, none that had its turn is left out,
\* and after a stage has thrown no stage runs: the call only ends.
C21_StagesInOrder ==
    /\ [](Active => RanInOrder(b))
    /\ [][b.pc = "thrown" => b'.pc = "idle"]_vars

C21_Witness ==
    /\ b.pc = "returned"
    /\ ~b.document.isArchive
    /\ Cardinality(Places(b, "buildLiveSamplePage")) >= 2
    /\ Ran("stripFlawMarkers")
    /\ Len(b.trace) >= 37

\* The post-processors that change the element at a place of the tree.
Changing(i) == {name \in PostProcessors : unit.each[name][i] # unit.tree[i]}

\* The tree with the classes of every element taken as a set.
ClassSets(tree) == [i \in DOMAIN tree |-> [tree[i] EXCEPT !.class = Range(@)]]

\* Every order leaves the same classes and attributes on every element.
SameInEveryOrder ==
    \A r, s \in unit.results : ClassSets(r) = ClassSets(s)

\* The element is a div that is both an in-page callout and a warning, a
\* note or a block indicator.
CalloutAndNotecard(e) ==
    /\ e.tag = "div"
    /\ "in-page-callout" \in Range(e.class)
    /\ Range(e.class) \cap {"warning", "note", "blockIndicator"} # {}

CollectedInOrder ==
    \E m \in 0..Len(b.flaws) :
        /\ \A k \in 1..m : b.flaws[k].name # LiveSampleFlaw.name
        /\ \A k \in (m + 1)..Len(b.flaws) :
              /\ b.flaws[k].name = LiveSampleFlaw.name
              /\ b.flaws[k].filepath = b.document.fileInfo.path
        /\ Len(b.flaws) - m = Len(FailedSamples)

\* The record made of a collected flaw is fixable for a deprecated macro and
\* for a redirected link of no file or of the file of the document, and not
\* otherwise.
RecordsTheFlaw(record, flaw) ==
    LET deprecated == flaw.name = "MacroDeprecatedError"
        redirected == /\ flaw.name = "MacroRedirectedLinkError"
                      /\ flaw.filepath \in {NoPath, b.document.fileInfo.path}
    IN  /\ record.explanation = flaw.message
        /\ record.name = flaw.name /\ record.filepath = flaw.filepath
        /\ record.fixable \in BOOLEAN
        /\ record.fixable <=> (deprecated \/ redirected)
        /\ deprecated => record.suggestion = ""
        /\ ~record.fixable => record.suggestion = "<null>"

\* C23: in a build of a non-archived document that returns and collected
\* n >= 1 flaws (those of the render, then those of the live samples), under
\* the level WARN flaws.macros has n records in collection order, numbered
\* macro0, macro1, ... as the code numbers them, each with the message of its
\* flaw, fixable with suggestion "" for a deprecated macro, fixable for a
\* redirected link of no file or of this document's file, and not fixable
\* with no suggestion otherwise; under the level IGNORE there is no
\* flaws.macros.
C23_MacroFlawRecords ==
    (b.pc = "returned" /\ ~b.document.isArchive /\ Len(b.flaws) >= 1) =>
        /\ CollectedInOrder
        /\ Policy \in {FLAW_LEVELS.WARN, FLAW_LEVELS.IGNORE}
        /\ Policy = FLAW_LEVELS.WARN =>
              /\ "macros" \in DOMAIN b.doc.flaws
              /\ Len(b.doc.flaws.macros) = Len(b.flaws)
              /\ \A k \in 1..Len(b.flaws) :
                    /\ b.doc.flaws.macros[k].id = <<"macro", k - 1>>
                    /\ RecordsTheFlaw(b.doc.flaws.macros[k], b.flaws[k])
        /\ Policy = FLAW_LEVELS.IGNORE => "macros" \notin DOMAIN b.doc.flaws

C23_Witness ==
    /\ b.pc = "returned" /\ ~b.document.isArchive
    /\ Policy = FLAW_LEVELS.WARN
    /\ Len(b.flaws) = 4
    /\ b.document.fileInfo.path = "en-us/a/index.html"
    /\ b.doc.flaws.macros[1].fixable /\ b.doc.flaws.macros[2].fixable
    /\ ~b.doc.flaws.macros[3].fixable
    /\ b.doc.flaws.macros[4].name = LiveSampleFlaw.name
    /\ b.doc.flaws.macros[4].id = <<"macro", 3>>

\* An anchor whose href starts with "http" and contains "fxsitecompat.com".
PointsAtFxSiteCompat(e) ==
    /\ IsHttpAnchor(e)
    /\ \E k \in 1..Len(e.href) : e.href[k] = "fxsitecompat.com"

\* C24: in a build that returns, no anchor of the HTML of the output, body
\* sections and sidebar, has an href that starts with "http" and contains
\* "fxsitecompat.com".
C24_NoUnsafeLinkInOutput ==
    b.pc = "returned" => \A e \in OutputElements : ~PointsAtFxSiteCompat(e)

\* What is left of a stored page in the tree and what the tree shows of it:
\* the tag and the box of every element outside span.alllinks and the sidebar.
Outline(html) ==
    LET kept == SelectSeq(html, LAMBDA e : e.box \notin {"alllinks", "sidebar"})
    IN  [k \in 1..Len(kept) |-> <<kept[k].tag, kept[k].box>>]

MacroEngineStages ==
    {"renderCache.reset", "render", "getLiveSampleIDs", "buildLiveSamplePage",
     "macroFlawPolicy"}

\* C25: a build of an archived document never renders, never looks up or
\* builds a live sample, never resets the render cache and never applies the
\* macro flaw policy; the HTML it loads is the stored raw HTML as it is; it has
\* no live sample and no flaws.macros, and it never throws the flaw error;
\* whatever the macros flaw level. No step of such a build changes the render
\* cache.
C25_ArchivedSkipsMacros ==
    /\ []((Active /\ b.document.isArchive) =>
            /\ Range(b.trace) \cap MacroEngineStages = {}
            /\ b.visited = <<>> /\ b.flaws = <<>> /\ b.liveSamples = <<>>
            /\ b.pc # "awaitRender"
            /\ Ran("load") /\ b.pc # "thrown" => Ran("useRawHTML")
            /\ b.pc \in {"awaitFix", "returned"} =>
                  /\ b.renderedHtml = b.document.rawHTML.html
                  /\ "macros" \notin DOMAIN b.doc.flaws
            /\ b.pc = "awaitFix" => Outline(b.tree) = Outline(b.document.rawHTML.html)
            /\ b.pc = "thrown" => b.error.message # FlawErrorMessage)
    /\ [][(b'.pc # "idle" /\ b'.document.isArchive) => renderCache' = renderCache]_vars

C25_Witness ==
    /\ b.pc = "returned" /\ b.document.isArchive
    /\ Policy = FLAW_LEVELS.ERROR
    /\ b.options.clearKumascriptRenderCache
    /\ renderCache # {}
    /\ b.document.rawHTML.samples # <<>>
    /\ \E e \in Range(b.document.rawHTML.html) : e.dataFlawSrc # Absent
    /\ b.renderedHtml = b.document.rawHTML.html

\* The click that unit' has and unit has not, "" when there is none.
Clicked ==
    IF /\ unit.op = "CloseAccount" /\ unit'.op = "CloseAccount"
       /\ Len(unit'.clicks) = Len(unit.clicks) + 1
    THEN unit'.clicks[Len(unit'.clicks)]
    ELSE ""

\* Among the clicks there is a "Close account" and after it a "Yes", with no
\* "Cancel" between the two: the prompt was shown when "Yes" was clicked.
YesAfterCloseAccount(clicks) ==
    \E i, k \in 1..Len(clicks) :
        /\ i < k
        /\ clicks[i] = "Close account" /\ clicks[k] = "Yes"
        /\ \A m \in (i + 1)..(k - 1) : clicks[m] # "Cancel"

\* C26: CloseAccount sends DELETE /api/v1/settings only after a click on
\* "Close account" followed by a click on "Yes" while the prompt was shown; a
\* click on "Cancel" leaves the prompt hidden and sends nothing; and certain,
\* once true, stays true.
C26_DeleteOnlyWhenCertain ==
    /\ [](unit.op = "CloseAccount" =>
            /\ unit.sent > 0 => unit.certain
            /\ unit.request # "none" => unit.sent > 0
            /\ unit.certain => YesAfterCloseAccount(unit.clicks))
    /\ [][/\ Clicked = "Cancel" =>
                /\ ~unit'.confirm
                /\ unit'.sent = unit.sent /\ unit'.request = unit.request
                /\ unit'.certain = unit.certain
          /\ Clicked = "Yes" => unit.confirm
          /\ (unit.op = "CloseAccount" /\ unit.certain) =>
                (unit'.op = "CloseAccount" /\ unit'.certain)
          /\ (unit.op = "CloseAccount" /\ unit'.op = "CloseAccount"
                /\ unit'.sent > unit.sent) => Clicked = ""]_vars

C26_Witness ==
    /\ unit.op = "CloseAccount"
    /\ unit.clicks = <<"Close account", "Cancel", "Close account", "Yes", "Cancel">>
    /\ unit.certain /\ ~unit.confirm
    /\ unit.sent = 2 /\ unit.request = "ok"

====
